---- MODULE Spec2Model ----
(***************************************************************************)
(* Model of the agent orchestration and code-evaluation loops of APEX-ML:  *)
(* the initialization merge loop, the refinement outer/inner loop, the     *)
(* ensemble plan loop, the submission selection and the code executor.     *)
(***************************************************************************)
EXTENDS Integers, Sequences, FiniteSets, TLC

(***************************************************************************)
(* Bounds of the model.                                                    *)
(***************************************************************************)
\* scores printed by the generated programs range over 0..MaxScore
MaxScore == 2
\* the execution timeout, counted in clock ticks of the executor model
TimeoutTicks == 2
\* the max_attempts arguments tried on a direct call of debug_code
MaxAttempts == 2
MaxCandidates == 5
MaxOutputLen == 5
MaxResponseLen == 6

(***************************************************************************)
(* Program constants (config/config.py).                                   *)
(***************************************************************************)
num_solutions == 2
num_model_candidates == 2
inner_loop_rounds == 2
outer_loop_rounds == 2
ensemble_loop_rounds == 2
max_debug_rounds == 5
exec_timeout == 600
max_retries == 3

(***************************************************************************)
(* Values.                                                                 *)
(***************************************************************************)
\* an optional score: None, or a one-element sequence holding the number
None == <<>>
Some(v) == <<v>>
Defined(s) == s # None
Val(s) == s[1]
Scores == 0..MaxScore
OptScores == {None} \cup {Some(v) : v \in Scores}

\* the source text of a candidate is identified by the step that generated
\* it; the patches of a debug pass keep that identity
MkCode(kind, a, b) == [kind |-> kind, a |-> a, b |-> b]
NoCode == MkCode("none", 0, 0)

\* plans are strings: sequences of characters
Plans == {<<"a">>, <<"A">>, <<"b">>, <<"a", "b">>}
NoPlan == <<>>

Min(a, b) == IF a < b THEN a ELSE b
Range(s) == {s[k] : k \in 1..Len(s)}

(***************************************************************************)
(* str.lower() and the substring test `a in b` of Python strings.          *)
(***************************************************************************)
LowerChar(c) == IF c = "A" THEN "a" ELSE IF c = "B" THEN "b" ELSE c
Lower(s) == [k \in 1..Len(s) |-> LowerChar(s[k])]
IsSubstring(a, b) ==
    \E k \in 0..(Len(b) - Len(a)) : SubSeq(b, k + 1, k + Len(a)) = a

(***************************************************************************)
(* The comparison under CONFIG.lower_is_better, as written out at every    *)
(* place that compares two defined scores.                                 *)
(***************************************************************************)
\* faulty variants of the comparison: one ignores the flag, one accepts ties
IsImprovedIgnoringFlag(new, old, lib) == new < old
IsImprovedNonStrict(new, old, lib) == IF lib THEN new <= old ELSE new >= old
IsImproved(new, old, lib) == IF lib THEN new < old ELSE new > old

(***************************************************************************)
(* list.sort(key = score, reverse = not lower_is_better): a stable sort.   *)
(***************************************************************************)
Precedes(a, b, reverse) == IF reverse THEN a > b ELSE a < b

RECURSIVE InsertSorted(_, _, _)
InsertSorted(e, s, reverse) ==
    IF s = <<>> THEN <<e>>
    ELSE IF Precedes(Val(e.score), Val(Head(s).score), reverse)
         THEN <<e>> \o s
         ELSE <<Head(s)>> \o InsertSorted(e, Tail(s), reverse)

RECURSIVE SortByScore(_, _)
SortByScore(s, reverse) ==
    IF s = <<>> THEN <<>>
    ELSE InsertSorted(s[Len(s)], SortByScore(SubSeq(s, 1, Len(s) - 1), reverse), reverse)

RECURSIVE SelectSeq2(_, _)
SelectSeq2(s, keep) ==
    IF s = <<>> THEN <<>>
    ELSE IF Head(s) \in keep THEN <<Head(s)>> \o SelectSeq2(Tail(s), keep)
         ELSE SelectSeq2(Tail(s), keep)

(***************************************************************************)
(* The executor seen from its callers: what a spawned program does, and the*)
(* result CodeExecutor.execute_code builds from it.                        *)
(***************************************************************************)
\* a program either exits with a return code after printing (or not) a
\* score line, or is still running when the timeout expires
ProcBehaviours ==
    {[timed_out |-> FALSE, rc |-> r, out |-> o] : r \in {0, 1}, o \in OptScores}
        \cup {[timed_out |-> TRUE, rc |-> 0, out |-> None]}

\* lines 90-100: the result of any other exception
ExecutionErrorResult(timeout) ==
    [success |-> FALSE, returncode |-> -1, score |-> None,
     stderr |-> <<"Execution error">>, generated_files |-> {}]

\* faulty variant: the timeout reported as any other exception
TimeoutAsExecutionError(timeout) == ExecutionErrorResult(timeout)

\* lines 79-89: the result of subprocess.TimeoutExpired
TimeoutResult(timeout) ==
    [success |-> FALSE, returncode |-> -1, score |-> None,
     stderr |-> <<"Execution timed out after", timeout>>, generated_files |-> {}]

\* lines 56-77: the result of a program that exited; the score is read from
\* stdout whatever the return code
ExitResult(rc, out, files) ==
    [success |-> rc = 0, returncode |-> rc, score |-> out,
     stderr |-> IF rc = 0 THEN <<>> ELSE <<"traceback">>, generated_files |-> files]

ExecuteCode(p) ==
    IF p.timed_out THEN TimeoutResult(exec_timeout) ELSE ExitResult(p.rc, p.out, {})

\* debug_code re-executes up to max_attempts times and returns the (possibly
\* patched) source with the result of the last re-execution
DebugCode(code) ==
    {[code |-> code, result |-> ExecuteCode(p)] : p \in ProcBehaviours}

VARIABLES
    lower_is_better,      \* CONFIG.lower_is_better
    stage,                \* which agent is running
    pc,                   \* its position
    result,               \* the result of the last evaluation
    evaluated,            \* log: the results of the evaluations of the running loop
    evaluation_results,   \* InitializationAgent: the list _evaluate_models returned
    successful,           \* _merge_solutions: the sorted successful results
    merge_i,              \* _merge_solutions: the loop index i
    current_code,         \* the incumbent of the merge loop / refinement outer loop
    current_score,
    best_solution,        \* InitializationAgent.run: results["best_solution"]
    best_score_init,      \* InitializationAgent.run: results["best_score"]
    initial_code,         \* RefinementAgent.run: the seed
    initial_score,
    step,                 \* RefinementAgent.run: the outer loop index
    ablation_results,     \* whether the ablation study returned a non-empty dict
    code_block,           \* the block and plan _extract_block_and_plan returned
    improvement_plan,
    base_code,            \* _run_inner_loop: its parameters
    base_score,
    plans_tried,          \* _run_inner_loop: plans_tried
    improvements,         \* _run_inner_loop: improvements
    inner_iter,           \* _run_inner_loop: the loop index
    new_plan,             \* _generate_refined_plan: the plan the generator proposed
    refinement_steps,     \* results["refinement_steps"]
    final_code,           \* results["final_code"], results["final_score"]
    final_score,
    refined_solutions,    \* the list run_refinement_agents returned
    ensemble_plans,       \* EnsembleAgent.ensemble_plans
    ensemble_iterations,  \* results["ensemble_iterations"]
    iteration,            \* EnsembleAgent.run: the loop index
    refined_plan,         \* _generate_refined_plan: the plan the generator proposed
    best_code,            \* EnsembleAgent.run: the incumbent
    best_score,
    ensemble_result,      \* the dict EnsembleAgent.run returned
    best_candidate,       \* what SubmissionAgent._select_best_solution returned
    ex_pc,                \* execute_code: its position
    ex_timeout,           \* execute_code: timeout
    ex_proc,              \* what the program would do if left to run
    ex_proc_state,        \* the spawned process: none, running, exited, killed
    ex_elapsed,           \* clock ticks since the spawn
    ex_dir_files,         \* the conventional output files in working_dir
    ex_result,            \* the dict execute_code returned
    ev_pc,                \* one candidate evaluation: its position
    ev_site,              \* which code evaluates: init_model, merge, refine,
                          \* ensemble, or a direct call of debug_code
    ev_config_rounds,     \* CONFIG.max_debug_rounds
    ev_max_attempts,      \* the max_attempts argument of the debug pass
    ev_effective,         \* the bound of the debug loop's range()
    ev_attempt,           \* re-executions of the debug pass so far
    ev_code,              \* the source: the number of patches applied to it
    ev_first,             \* the result of the first execution
    ev_result,            \* the latest result
    ev_debugged,          \* a debug pass was started
    ev_runs,              \* the executions: directory and file written and run
    ev_return,            \* what the evaluation returned
    pipe_pc,              \* OneAboveAll.run: its position
    pipe_stage,           \* the stage running or about to start, 1..4
    pipe_stages,          \* self.results["stages"], in insertion order
    pipe_error,           \* self.results has "error" and "traceback"
    pipe_saved,           \* the content of pipeline_results.json
    pipe_log,             \* the calls of the stages: start, return, raise
    pipe_init,            \* initialization results with a solution and a score
    pipe_refined,         \* refinement results
    pool_agent_pc,        \* run_initialization_agents: each agent's position
    pool_n,               \* the model candidates each agent's search returned
    pool_queued,          \* evaluations submitted and not yet started, per agent
    pool_gen,             \* evaluations waiting for the model's answer, per agent
    pool_exec,            \* evaluations whose program is running, per agent
    pool_done,            \* evaluations finished, per agent
    sc_pc,                \* _extract_score: called or returned
    sc_output,            \* the program's output, as a sequence of tokens
    sc_result,            \* the score returned
    ch_pc,                \* chat_completion: its position
    ch_payload,           \* the optional fields of the request
    ch_attempt,           \* the loop variable of the retry loop
    ch_requests,          \* HTTP requests sent so far
    ch_log,               \* what each request met
    ch_slept,             \* seconds slept between attempts
    ch_return,            \* the body returned or the exception raised
    fn_pc,                \* a function called on its own: called or returned
    fn_name,              \* which function
    fn_input,             \* its arguments
    fn_output,            \* what it returned or raised
    col_agent,            \* run_initialization_agents: each agent's future
    col_n,                \* the model candidates of each agent
    col_task,             \* _evaluate_models: each evaluation's future
    col_entries,          \* _evaluate_models: evaluation_results, per agent
    col_results           \* run_initialization_agents: results

mergeVars == <<evaluation_results, successful, merge_i, best_solution, best_score_init>>
innerVars == <<base_code, base_score, plans_tried, improvements, inner_iter, new_plan>>
outerVars == <<initial_code, initial_score, step, ablation_results, code_block,
               improvement_plan, refinement_steps, final_code, final_score>>
refineVars == <<innerVars, outerVars>>
ensembleVars == <<refined_solutions, ensemble_plans, ensemble_iterations, iteration,
                  refined_plan, best_code, best_score, ensemble_result, best_candidate>>
loopVars == <<lower_is_better, stage, pc, result, evaluated,
              current_code, current_score, mergeVars, refineVars, ensembleVars>>
execVars == <<ex_pc, ex_timeout, ex_proc, ex_proc_state, ex_elapsed, ex_dir_files,
              ex_result>>
evalVars == <<ev_pc, ev_site, ev_config_rounds, ev_max_attempts, ev_effective,
              ev_attempt, ev_code, ev_first, ev_result, ev_debugged, ev_runs,
              ev_return>>
pipeVars == <<pipe_pc, pipe_stage, pipe_stages, pipe_error, pipe_saved, pipe_log,
              pipe_init, pipe_refined>>
poolVars == <<pool_agent_pc, pool_n, pool_queued, pool_gen, pool_exec, pool_done>>
scoreVars == <<sc_pc, sc_output, sc_result>>
chatVars == <<ch_pc, ch_payload, ch_attempt, ch_requests, ch_log, ch_slept, ch_return>>
fnVars == <<fn_pc, fn_name, fn_input, fn_output>>
collectVars == <<col_agent, col_n, col_task, col_entries, col_results>>
auxVars == <<evalVars, pipeVars, poolVars, scoreVars, chatVars, fnVars, collectVars>>
notEval == <<loopVars, execVars, pipeVars, poolVars, scoreVars, chatVars, fnVars, collectVars>>
notPipe == <<loopVars, execVars, evalVars, poolVars, scoreVars, chatVars, fnVars, collectVars>>
notPool == <<loopVars, execVars, evalVars, pipeVars, scoreVars, chatVars, fnVars, collectVars>>
notScore == <<loopVars, execVars, evalVars, pipeVars, poolVars, chatVars, fnVars, collectVars>>
notChat == <<loopVars, execVars, evalVars, pipeVars, poolVars, scoreVars, fnVars, collectVars>>
notCollect == <<loopVars, execVars, evalVars, pipeVars, poolVars, scoreVars, chatVars,
                fnVars>>
notFn == <<loopVars, execVars, evalVars, pipeVars, poolVars, scoreVars, chatVars, collectVars>>
vars == <<loopVars, execVars, auxVars>>

NoResult == [success |-> FALSE, returncode |-> 0, score |-> None,
             stderr |-> <<>>, generated_files |-> {}]

(***************************************************************************)
(* InitializationAgent._merge_solutions                                    *)
(***************************************************************************)
\* an entry of evaluation_results: the dict _evaluate_single_model returns,
\* or the dict without "code" and "score" appended when the evaluation raised
ModelEntry(m, ok, s) ==
    [model_id |-> m, has_code |-> TRUE, code |-> MkCode("init_code", m, 0),
     success |-> ok, score |-> s]
RaisedEntry(m) ==
    [model_id |-> m, has_code |-> FALSE, code |-> NoCode,
     success |-> FALSE, score |-> None]
ModelEntries(m) ==
    {ModelEntry(m, ok, s) : ok \in BOOLEAN, s \in OptScores} \cup {RaisedEntry(m)}

\* one entry per model candidate, in completion order
EvaluationResultLists ==
    {<<e>> : e \in ModelEntries(1)}
        \cup {<<e1, e2>> : e1 \in ModelEntries(1), e2 \in ModelEntries(2)}
        \cup {<<e2, e1>> : e1 \in ModelEntries(1), e2 \in ModelEntries(2)}

\* faulty variant: a printed score counts whatever the exit status
IsSuccessfulAnyScore(r) == Defined(r.score)
IsSuccessful(r) == r.success /\ Defined(r.score)

MergeIdle ==
    /\ evaluation_results = <<>>
    /\ successful = <<>>
    /\ merge_i = 0
    /\ best_solution = NoCode
    /\ best_score_init = None

InnerIdle ==
    /\ base_code = NoCode
    /\ base_score = None
    /\ plans_tried = <<>>
    /\ improvements = <<>>
    /\ inner_iter = 0
    /\ new_plan = NoPlan

RefineIdle ==
    /\ InnerIdle
    /\ initial_code = NoCode
    /\ initial_score = None
    /\ step = 0
    /\ ablation_results = FALSE
    /\ code_block = FALSE
    /\ improvement_plan = NoPlan
    /\ refinement_steps = <<>>
    /\ final_code = NoCode
    /\ final_score = None

NoEnsembleResult ==
    [returned |-> FALSE, has_best |-> FALSE, best_ensemble_code |-> NoCode,
     best_ensemble_score |-> None]
NoCandidate == [code |-> NoCode, score |-> None, source |-> -1]

EnsembleIdle ==
    /\ refined_solutions = <<>>
    /\ ensemble_plans = <<>>
    /\ ensemble_iterations = <<>>
    /\ iteration = 0
    /\ refined_plan = NoPlan
    /\ best_code = NoCode
    /\ best_score = None
    /\ ensemble_result = NoEnsembleResult
    /\ best_candidate = NoCandidate

NoProc == [duration |-> 0, rc |-> 0, out |-> None, writes |-> {}]

ExecIdle ==
    /\ ex_pc = "idle"
    /\ ex_timeout = 0
    /\ ex_proc = NoProc
    /\ ex_proc_state = "none"
    /\ ex_elapsed = 0
    /\ ex_dir_files = {}
    /\ ex_result = NoResult

NoReturn == [returned |-> FALSE, code |-> 0, result |-> NoResult]

EvalIdle ==
    /\ ev_pc = "idle"
    /\ ev_site = "none"
    /\ ev_config_rounds = 0
    /\ ev_max_attempts = 0
    /\ ev_effective = 0
    /\ ev_attempt = 0
    /\ ev_code = 0
    /\ ev_first = NoResult
    /\ ev_result = NoResult
    /\ ev_debugged = FALSE
    /\ ev_runs = <<>>
    /\ ev_return = NoReturn

NotSaved == [saved |-> FALSE, stages |-> <<>>, error |-> FALSE]

PipeIdle ==
    /\ pipe_pc = "idle"
    /\ pipe_stage = 0
    /\ pipe_stages = <<>>
    /\ pipe_error = FALSE
    /\ pipe_saved = NotSaved
    /\ pipe_log = <<>>
    /\ pipe_init = <<>>
    /\ pipe_refined = <<>>

Agents == 1..num_solutions

PoolIdle ==
    /\ pool_agent_pc = [a \in Agents |-> "queued"]
    /\ pool_n = [a \in Agents |-> 0]
    /\ pool_queued = [a \in Agents |-> 0]
    /\ pool_gen = [a \in Agents |-> 0]
    /\ pool_exec = [a \in Agents |-> 0]
    /\ pool_done = [a \in Agents |-> 0]

ScoreIdle ==
    /\ sc_pc = "idle"
    /\ sc_output = <<>>
    /\ sc_result = None

NoPayload == [max_tokens |-> FALSE, response_format |-> FALSE]

ChatIdle ==
    /\ ch_pc = "idle"
    /\ ch_payload = NoPayload
    /\ ch_attempt = 0
    /\ ch_requests = 0
    /\ ch_log = <<>>
    /\ ch_slept = 0
    /\ ch_return = "none"

FnIdle ==
    /\ fn_pc = "idle"
    /\ fn_name = ""
    /\ fn_input = <<>>
    /\ fn_output = <<>>

Models == 1..num_model_candidates

CollectIdle ==
    /\ col_agent = [a \in Agents |-> "queued"]
    /\ col_n = [a \in Agents |-> 0]
    /\ col_task = [a \in Agents |-> [m \in Models |-> "none"]]
    /\ col_entries = [a \in Agents |-> <<>>]
    /\ col_results = <<>>

AuxIdle ==
    EvalIdle /\ PipeIdle /\ PoolIdle /\ ScoreIdle /\ ChatIdle /\ FnIdle /\ CollectIdle

\* the variables of the agents' loops at rest, for the models of one component
LoopsIdle(s) ==
    /\ stage = s
    /\ pc = "idle"
    /\ lower_is_better = TRUE
    /\ result = NoResult
    /\ evaluated = <<>>
    /\ current_code = NoCode
    /\ current_score = None
    /\ MergeIdle
    /\ RefineIdle
    /\ EnsembleIdle

InitMerge ==
    /\ ExecIdle
    /\ AuxIdle
    /\ stage = "merge"
    /\ pc = "merge_start"
    /\ lower_is_better \in BOOLEAN
    /\ evaluation_results \in EvaluationResultLists
    /\ successful = <<>>
    /\ merge_i = 0
    /\ current_code = NoCode
    /\ current_score = None
    /\ best_solution = NoCode
    /\ best_score_init = None
    /\ result = NoResult
    /\ evaluated = <<>>
    /\ RefineIdle
    /\ EnsembleIdle

\* lines 216-238: filter, the two early returns, sort, seed the incumbent
MergeBegin ==
    /\ stage = "merge" /\ pc = "merge_start"
    /\ LET succ == SelectSeq2(evaluation_results,
                              {r \in Range(evaluation_results) : IsSuccessful(r)})
           sorted == SortByScore(succ, ~lower_is_better)
       IN /\ successful' = sorted
          /\ IF succ = <<>>
             THEN \* evaluation_results[0]["code"]: a KeyError when that entry has
                  \* no code, caught by InitializationAgent.run
                  /\ best_solution' = evaluation_results[1].code
                  /\ best_score_init' = None
                  /\ pc' = IF evaluation_results[1].has_code
                           THEN "agent_done" ELSE "agent_key_error"
                  /\ UNCHANGED <<merge_i, current_code, current_score>>
             ELSE IF Len(succ) = 1
             THEN /\ best_solution' = sorted[1].code
                  /\ best_score_init' = sorted[1].score
                  /\ pc' = "agent_done"
                  /\ UNCHANGED <<merge_i, current_code, current_score>>
             ELSE /\ current_code' = sorted[1].code
                  /\ current_score' = sorted[1].score
                  /\ merge_i' = 1
                  /\ pc' = "merge_loop"
                  /\ UNCHANGED <<best_solution, best_score_init>>
    /\ UNCHANGED <<auxVars, execVars, lower_is_better, stage, result, evaluated,
                   evaluation_results, refineVars, ensembleVars>>

\* lines 240-271: one iteration of the merge loop
MergeIteration ==
    /\ stage = "merge" /\ pc = "merge_loop"
    /\ merge_i < Min(Len(successful), num_model_candidates)
    /\ \E gen_ok \in BOOLEAN :
         IF ~gen_ok
         THEN \* llm_client.get_completion raised: caught by InitializationAgent.run
              /\ pc' = "agent_error"
              /\ UNCHANGED <<result, evaluated, current_code, current_score, merge_i>>
         ELSE \E p \in ProcBehaviours :
                LET merged_code == MkCode("merged", merge_i, 0)
                    r == ExecuteCode(p)
                IN /\ result' = r
                   /\ evaluated' = Append(evaluated, r)
                   /\ IF IsSuccessful(r)
                         /\ IsImproved(Val(r.score), Val(current_score), lower_is_better)
                      THEN /\ current_code' = merged_code
                           /\ current_score' = r.score
                      ELSE UNCHANGED <<current_code, current_score>>
                   /\ merge_i' = merge_i + 1
                   /\ pc' = "merge_loop"
    /\ UNCHANGED <<auxVars, execVars, lower_is_better, stage, evaluation_results,
                   successful, best_solution, best_score_init, refineVars,
                   ensembleVars>>

\* lines 273-281 and InitializationAgent.run lines 72-74
MergeFinish ==
    /\ stage = "merge" /\ pc = "merge_loop"
    /\ merge_i >= Min(Len(successful), num_model_candidates)
    /\ best_solution' = current_code
    /\ best_score_init' = current_score
    /\ pc' = "agent_done"
    /\ UNCHANGED <<auxVars, execVars, lower_is_better, stage, result, evaluated,
                   evaluation_results, successful, merge_i, current_code, current_score,
                   refineVars, ensembleVars>>

(***************************************************************************)
(* RefinementAgent                                                         *)
(***************************************************************************)
\* _evaluate_code: execute, then a debug pass when the execution failed and
\* a debug budget is configured; the debugged source is dropped, only the
\* result is returned
EvaluateCode(code, budget) ==
    {r \in {ExecuteCode(p) : p \in ProcBehaviours} : r.success \/ budget = 0}
        \cup {d.result : d \in IF budget > 0 THEN DebugCode(code) ELSE {}}

\* _run_inner_loop lines 183-188 and 208-213: the attempt recorded for a plan
\* faulty variant: every attempt is recorded under the initial plan
ImprovementOfInitialPlan(plan, code, r) ==
    [plan |-> improvement_plan, code |-> code, score |-> r.score, success |-> r.success]
Improvement(plan, code, r) ==
    [plan |-> plan, code |-> code, score |-> r.score, success |-> r.success]

\* _generate_refined_plan lines 283-287: the proposal is dropped when it is
\* contained, ignoring case, in a plan already tried
\* faulty variant: no duplicate check
NeverDuplicate(plan, tried) == FALSE
IsDuplicatePlan(plan, tried) ==
    \E k \in 1..Len(tried) : IsSubstring(Lower(plan), Lower(tried[k]))

InitRefine ==
    /\ ExecIdle
    /\ AuxIdle
    /\ stage = "refine"
    /\ pc = "outer_head"
    /\ lower_is_better \in BOOLEAN
    /\ MergeIdle
    /\ EnsembleIdle
    /\ initial_code = MkCode("train0", 1, 0)
    /\ initial_score \in {Some(v) : v \in Scores}
    /\ current_code = initial_code
    /\ current_score = initial_score
    /\ step = 0
    /\ ablation_results = FALSE
    /\ code_block = FALSE
    /\ improvement_plan = NoPlan
    /\ InnerIdle
    /\ refinement_steps = <<>>
    /\ final_code = initial_code
    /\ final_score = initial_score
    /\ result = NoResult
    /\ evaluated = <<>>

\* run line 44, _run_ablation_study
RunAblationStudy ==
    /\ stage = "refine" /\ pc = "outer_head"
    /\ step < outer_loop_rounds
    /\ \E o \in {"raise", "failed", "ok"} :
         /\ pc' = IF o = "raise" THEN "raised" ELSE "extract"
         /\ ablation_results' = (o = "ok")
    \* the locals of the inner loop of the previous step are gone
    /\ base_code' = NoCode
    /\ base_score' = None
    /\ plans_tried' = <<>>
    /\ improvements' = <<>>
    /\ inner_iter' = 0
    /\ new_plan' = NoPlan
    /\ result' = NoResult
    /\ evaluated' = <<>>
    /\ UNCHANGED <<auxVars, execVars, lower_is_better, stage, current_code, current_score, mergeVars,
                   ensembleVars, initial_code, initial_score, step, code_block,
                   improvement_plan, refinement_steps, final_code, final_score>>

\* run lines 47-55, _extract_block_and_plan
ExtractBlockAndPlan ==
    /\ stage = "refine" /\ pc = "extract"
    /\ IF ~ablation_results
       THEN /\ pc' = "outer_break"
            /\ code_block' = FALSE
            /\ improvement_plan' = NoPlan
       ELSE \E gen_ok \in BOOLEAN :
              IF ~gen_ok
              THEN /\ pc' = "raised"
                   /\ UNCHANGED <<code_block, improvement_plan>>
              ELSE \E cb \in BOOLEAN, plan \in Plans \cup {NoPlan} :
                     /\ code_block' = cb
                     /\ improvement_plan' = plan
                     /\ pc' = IF ~cb \/ plan = NoPlan THEN "outer_break" ELSE "inner_start"
    /\ UNCHANGED <<auxVars, execVars, lower_is_better, stage, result, evaluated,
                   current_code, current_score, mergeVars, ensembleVars, innerVars,
                   initial_code, initial_score, step, ablation_results,
                   refinement_steps, final_code, final_score>>

\* _run_inner_loop line 191: for inner_iter in range(1, CONFIG.inner_loop_rounds)
\* faulty variant: the loop has no budget
InnerLoopNeverEnds(i) == TRUE
InnerLoopContinues(i) == i < inner_loop_rounds

\* run lines 58-64: the code and score passed to _run_inner_loop
\* faulty variant: every inner loop starts from the seed of the refinement
SeedOfRefinement(code, score) == <<initial_code, initial_score>>
InnerLoopArguments(code, score) == <<code, score>>

\* _run_inner_loop lines 176-188: the initial plan
TryInitialPlan ==
    /\ stage = "refine" /\ pc = "inner_start"
    /\ base_code' = InnerLoopArguments(current_code, current_score)[1]
    /\ base_score' = InnerLoopArguments(current_code, current_score)[2]
    /\ plans_tried' = <<improvement_plan>>
    /\ new_plan' = NoPlan
    /\ \E gen_ok \in BOOLEAN :
         IF ~gen_ok
         THEN /\ pc' = "raised"
              /\ improvements' = <<>>
              /\ evaluated' = <<>>
              /\ inner_iter' = 0
              /\ UNCHANGED result
         ELSE LET improved_code == MkCode("improve", step, 0)
              IN \E r \in EvaluateCode(improved_code, max_debug_rounds) :
                   /\ result' = r
                   /\ evaluated' = <<r>>
                   /\ improvements' = <<Improvement(improvement_plan, improved_code, r)>>
                   /\ inner_iter' = 1
                   /\ pc' = "inner_loop"
    /\ UNCHANGED <<auxVars, execVars, lower_is_better, stage, current_code,
                   current_score, mergeVars, ensembleVars, outerVars>>

\* _run_inner_loop lines 191-202 with _generate_refined_plan
GenerateRefinedPlan ==
    /\ stage = "refine" /\ pc = "inner_loop"
    /\ InnerLoopContinues(inner_iter)
    /\ \E gen_ok \in BOOLEAN :
         IF ~gen_ok
         THEN /\ pc' = "raised"
              /\ UNCHANGED <<new_plan, plans_tried>>
         ELSE \E plan \in Plans \cup {NoPlan} :
                /\ new_plan' = plan
                /\ IF IsDuplicatePlan(plan, plans_tried) \/ plan = NoPlan
                   THEN /\ pc' = "inner_select"
                        /\ UNCHANGED plans_tried
                   ELSE /\ pc' = "inner_eval"
                        /\ plans_tried' = Append(plans_tried, plan)
    /\ UNCHANGED <<auxVars, execVars, lower_is_better, stage, result, evaluated,
                   current_code, current_score, mergeVars, ensembleVars, outerVars,
                   base_code, base_score, improvements, inner_iter>>

\* _run_inner_loop lines 204-213
ImplementAndEvaluate ==
    /\ stage = "refine" /\ pc = "inner_eval"
    /\ \E gen_ok \in BOOLEAN :
         IF ~gen_ok
         THEN /\ pc' = "raised"
              /\ UNCHANGED <<result, evaluated, improvements, inner_iter>>
         ELSE LET improved_code == MkCode("improve", step, inner_iter)
              IN \E r \in EvaluateCode(improved_code, max_debug_rounds) :
                   /\ result' = r
                   /\ evaluated' = Append(evaluated, r)
                   /\ improvements' =
                          Append(improvements, Improvement(new_plan, improved_code, r))
                   /\ inner_iter' = inner_iter + 1
                   /\ pc' = "inner_loop"
    /\ UNCHANGED <<auxVars, execVars, lower_is_better, stage, current_code,
                   current_score, mergeVars, ensembleVars, outerVars,
                   base_code, base_score, plans_tried, new_plan>>

\* faulty variant: the first valid improvement instead of the best
FirstImprovement(imps, score, lib) ==
    LET valid == SelectSeq2(imps, {x \in Range(imps) : IsSuccessful(x)})
    IN IF valid = <<>> THEN [improved |-> FALSE, code |-> NoCode, score |-> None]
       ELSE IF IsImproved(Val(valid[1].score), Val(score), lib)
            THEN [improved |-> TRUE, code |-> valid[1].code, score |-> valid[1].score]
            ELSE [improved |-> FALSE, code |-> NoCode, score |-> None]

\* _run_inner_loop lines 215-251: the dict it returns
BestImprovement(imps, score, lib) ==
    LET valid == SelectSeq2(imps, {x \in Range(imps) : IsSuccessful(x)})
        sorted == SortByScore(valid, ~lib)
    IN IF valid = <<>> THEN [improved |-> FALSE, code |-> NoCode, score |-> None]
       ELSE IF IsImproved(Val(sorted[1].score), Val(score), lib)
            THEN [improved |-> TRUE, code |-> sorted[1].code, score |-> sorted[1].score]
            ELSE [improved |-> FALSE, code |-> NoCode, score |-> None]

\* run lines 58-82, with the end of _run_inner_loop (lines 215-251)
FindBestImprovement ==
    /\ stage = "refine"
    /\ \/ pc = "inner_select"
       \/ pc = "inner_loop" /\ ~InnerLoopContinues(inner_iter)
    /\ LET best_improvement == BestImprovement(improvements, base_score, lower_is_better)
       IN /\ IF best_improvement.improved
             THEN /\ current_code' = best_improvement.code
                  /\ current_score' = best_improvement.score
             ELSE UNCHANGED <<current_code, current_score>>
          /\ refinement_steps' =
                 Append(refinement_steps,
                        [improved |-> best_improvement.improved,
                         new_score |-> best_improvement.score])
    /\ step' = step + 1
    /\ pc' = "outer_head"
    /\ UNCHANGED <<auxVars, execVars, lower_is_better, stage, result, evaluated,
                   mergeVars, ensembleVars, innerVars, initial_code, initial_score,
                   ablation_results, code_block, improvement_plan,
                   final_code, final_score>>

\* run lines 84-90
RefineFinish ==
    /\ stage = "refine"
    /\ \/ pc = "outer_break"
       \/ pc = "outer_head" /\ step >= outer_loop_rounds
    /\ final_code' = current_code
    /\ final_score' = current_score
    /\ pc' = "refine_done"
    /\ UNCHANGED <<auxVars, execVars, lower_is_better, stage, result, evaluated,
                   current_code, current_score, mergeVars, ensembleVars, innerVars,
                   initial_code, initial_score, step, ablation_results, code_block,
                   improvement_plan, refinement_steps>>

(***************************************************************************)
(* EnsembleAgent                                                           *)
(***************************************************************************)
RefinedSolution(t, s) ==
    [task_id |-> t, final_code |-> MkCode("refined", t, 0), final_score |-> s]
RefinedSolutions(t) == {RefinedSolution(t, Some(v)) : v \in Scores}

\* at most one refined solution per initialization agent, in completion order
RefinedSolutionLists ==
    {<<>>}
        \cup {<<x>> : x \in RefinedSolutions(1) \cup RefinedSolutions(2)}
        \cup {<<x, y>> : x \in RefinedSolutions(1), y \in RefinedSolutions(2)}
        \cup {<<y, x>> : x \in RefinedSolutions(1), y \in RefinedSolutions(2)}

\* run lines 27-30
ValidSolutions(refined) ==
    SelectSeq2(refined, {x \in Range(refined) :
                            x.final_code # NoCode /\ Defined(x.final_score)})

\* _implement_and_evaluate_plan: the (possibly debugged) source and the result
ImplementAndEvaluatePlan(iter, budget) ==
    LET ensemble_code == MkCode("ensemble", iter, 0)
        first == {ExecuteCode(p) : p \in ProcBehaviours}
    IN {[code |-> ensemble_code, result |-> r] :
            r \in {x \in first : x.success \/ budget = 0}}
         \cup (IF budget > 0 THEN DebugCode(ensemble_code) ELSE {})

EnsembleIteration(iter, plan, e) ==
    [iteration |-> iter, plan |-> plan, has_code |-> TRUE, code |-> e.code,
     success |-> e.result.success, score |-> e.result.score]

\* _generate_refined_plan lines 146-155: zip(previous_plans, previous_results)
PlansAndScores(plans, results) ==
    {k \in 1..Min(Len(plans), Len(results)) : IsSuccessful(results[k])}

InitEnsemble ==
    /\ ExecIdle
    /\ AuxIdle
    /\ stage = "ensemble"
    /\ pc = "ens_start"
    /\ lower_is_better \in BOOLEAN
    /\ MergeIdle
    /\ RefineIdle
    /\ current_code = NoCode
    /\ current_score = None
    /\ result = NoResult
    /\ evaluated = <<>>
    /\ refined_solutions \in RefinedSolutionLists
    /\ ensemble_plans = <<>>
    /\ ensemble_iterations = <<>>
    /\ iteration = 0
    /\ refined_plan = NoPlan
    /\ best_code = NoCode
    /\ best_score = None
    /\ ensemble_result = NoEnsembleResult
    /\ best_candidate = NoCandidate

\* run line 32: if len(valid_solutions) < 2
\* faulty variant: an ensemble is built from a single solution too
EnsembleOfOne(valid) == Len(valid) < 1
TooFewForEnsemble(valid) == Len(valid) < 2

\* run lines 26-65: the filter, the early return, the initial plan
EnsembleBegin ==
    /\ stage = "ensemble" /\ pc = "ens_start"
    /\ IF TooFewForEnsemble(ValidSolutions(refined_solutions))
       THEN /\ ensemble_result' = [NoEnsembleResult EXCEPT !.returned = TRUE]
            /\ stage' = "submission"
            /\ pc' = "select"
            /\ UNCHANGED <<result, evaluated, ensemble_plans, ensemble_iterations,
                           iteration, best_code, best_score>>
       ELSE \E gen_ok \in BOOLEAN :
              IF ~gen_ok
              THEN /\ pc' = "raised"
                   /\ UNCHANGED <<stage, result, evaluated, ensemble_plans,
                                  ensemble_iterations, iteration, best_code,
                                  best_score, ensemble_result>>
              ELSE \E initial_plan \in Plans,
                      e \in ImplementAndEvaluatePlan(0, max_debug_rounds) :
                     /\ ensemble_plans' = <<initial_plan>>
                     /\ ensemble_iterations' = <<EnsembleIteration(0, initial_plan, e)>>
                     /\ result' = e.result
                     /\ evaluated' = <<e.result>>
                     /\ best_code' = e.code
                     /\ best_score' = e.result.score
                     /\ iteration' = 1
                     /\ pc' = "ens_loop"
                     /\ UNCHANGED <<stage, ensemble_result>>
    /\ UNCHANGED <<auxVars, execVars, lower_is_better, current_code, current_score,
                   mergeVars, refineVars, refined_solutions, refined_plan,
                   best_candidate>>

\* run lines 68-82 with _generate_refined_plan
EnsGenerateRefinedPlan ==
    /\ stage = "ensemble" /\ pc = "ens_loop"
    /\ iteration <= ensemble_loop_rounds
    /\ IF PlansAndScores(ensemble_plans, ensemble_iterations) = {}
       THEN /\ pc' = "ens_break"
            /\ UNCHANGED <<refined_plan, ensemble_plans>>
       ELSE \E gen_ok \in BOOLEAN :
              IF ~gen_ok
              THEN /\ pc' = "raised"
                   /\ UNCHANGED <<refined_plan, ensemble_plans>>
              ELSE \E plan \in Plans \cup {NoPlan} :
                     /\ refined_plan' = plan
                     /\ IF IsDuplicatePlan(plan, ensemble_plans) \/ plan = NoPlan
                        THEN /\ pc' = "ens_break"
                             /\ UNCHANGED ensemble_plans
                        ELSE /\ pc' = "ens_eval"
                             /\ ensemble_plans' = Append(ensemble_plans, plan)
    /\ UNCHANGED <<auxVars, execVars, lower_is_better, stage, result, evaluated,
                   current_code, current_score, mergeVars, refineVars,
                   refined_solutions, ensemble_iterations, iteration, best_code,
                   best_score, ensemble_result, best_candidate>>

\* run lines 84-107
EnsImplementAndEvaluate ==
    /\ stage = "ensemble" /\ pc = "ens_eval"
    /\ \E gen_ok \in BOOLEAN :
         IF ~gen_ok
         THEN /\ pc' = "raised"
              /\ UNCHANGED <<result, evaluated, ensemble_iterations, iteration,
                             best_code, best_score>>
         ELSE \E e \in ImplementAndEvaluatePlan(iteration, max_debug_rounds) :
                LET ensemble_res == EnsembleIteration(iteration, refined_plan, e)
                IN /\ result' = e.result
                   /\ evaluated' = Append(evaluated, e.result)
                   /\ ensemble_iterations' = Append(ensemble_iterations, ensemble_res)
                   /\ IF IsSuccessful(ensemble_res)
                         /\ (best_score = None
                             \/ IsImproved(Val(ensemble_res.score), Val(best_score),
                                           lower_is_better))
                      THEN /\ best_code' = ensemble_res.code
                           /\ best_score' = ensemble_res.score
                      ELSE UNCHANGED <<best_code, best_score>>
                   /\ iteration' = iteration + 1
                   /\ pc' = "ens_loop"
    /\ UNCHANGED <<auxVars, execVars, lower_is_better, stage, current_code,
                   current_score, mergeVars, refineVars, refined_solutions,
                   ensemble_plans, refined_plan, ensemble_result, best_candidate>>

\* min(results["input_scores"]) / max(results["input_scores"])
IndividualBest(valid, lib) ==
    CHOOSE v \in {Val(x.final_score) : x \in Range(valid)} :
        \A w \in {Val(x.final_score) : x \in Range(valid)} :
            IF lib THEN v <= w ELSE v >= w

\* _save_results lines 243-246: the shallow copy shares the iteration dicts,
\* so popping "code" removes it from the entries of the returned result too
PopCode(iters) ==
    [k \in 1..Len(iters) |-> [iters[k] EXCEPT !.has_code = FALSE, !.code = NoCode]]

\* run lines 109-127 and _save_results
EnsembleFinish ==
    /\ stage = "ensemble"
    /\ \/ pc = "ens_break"
       \/ pc = "ens_loop" /\ iteration > ensemble_loop_rounds
    /\ IF Defined(best_score)
          /\ IndividualBest(ValidSolutions(refined_solutions), lower_is_better) = 0
       THEN \* improvement_percentage divides by individual_best: ZeroDivisionError
            /\ pc' = "raised_zero_division"
            /\ UNCHANGED <<stage, ensemble_iterations, ensemble_result>>
       ELSE /\ ensemble_result' =
                   [returned |-> TRUE, has_best |-> TRUE,
                    best_ensemble_code |-> best_code,
                    best_ensemble_score |-> best_score]
            /\ ensemble_iterations' = PopCode(ensemble_iterations)
            /\ stage' = "submission"
            /\ pc' = "select"
    /\ UNCHANGED <<auxVars, execVars, lower_is_better, result, evaluated,
                   current_code, current_score, mergeVars, refineVars,
                   refined_solutions, ensemble_plans, iteration, refined_plan,
                   best_code, best_score, best_candidate>>

(***************************************************************************)
(* SubmissionAgent._select_best_solution                                   *)
(***************************************************************************)
\* lines 93-111: the refined solutions, then the ensemble's best
Candidates(refined, ens) ==
    LET valid == ValidSolutions(refined)
        fromRefined == [k \in 1..Len(valid) |->
                           [code |-> valid[k].final_code, score |-> valid[k].final_score,
                            source |-> valid[k].task_id]]
    IN IF ens.best_ensemble_code # NoCode /\ Defined(ens.best_ensemble_score)
       THEN Append(fromRefined, [code |-> ens.best_ensemble_code,
                                 score |-> ens.best_ensemble_score, source |-> 0])
       ELSE fromRefined

\* lines 113-122
\* faulty variant: the ensemble program whenever there is one, scored or not
SelectEnsembleIfAny(refined, ens, lib) ==
    LET candidates == Candidates(refined, ens)
    IN IF ens.best_ensemble_code # NoCode
       THEN [code |-> ens.best_ensemble_code, score |-> ens.best_ensemble_score,
             source |-> 0]
       ELSE IF candidates = <<>> THEN NoCandidate
       ELSE SortByScore(candidates, ~lib)[1]
\* faulty variant: the first candidate in insertion order, without the sort
SelectFirstCandidate(refined, ens, lib) ==
    LET candidates == Candidates(refined, ens)
    IN IF candidates = <<>> THEN NoCandidate ELSE candidates[1]
SelectBest(refined, ens, lib) ==
    LET candidates == Candidates(refined, ens)
    IN IF candidates = <<>> THEN NoCandidate
       ELSE SortByScore(candidates, ~lib)[1]

SelectBestSolution ==
    /\ stage = "submission" /\ pc = "select"
    /\ best_candidate' = SelectBest(refined_solutions, ensemble_result, lower_is_better)
    /\ pc' = "selected"
    /\ UNCHANGED <<auxVars, execVars, lower_is_better, stage, result, evaluated,
                   current_code, current_score, mergeVars, refineVars,
                   refined_solutions, ensemble_plans, ensemble_iterations, iteration,
                   refined_plan, best_code, best_score, ensemble_result>>

(***************************************************************************)
(* CodeExecutor.execute_code step by step: write the source file, spawn    *)
(* the interpreter, wait for its exit or for the timeout.                  *)
(***************************************************************************)
OutputFiles == {"submission.csv"}

\* a program needs `duration` ticks, then exits with rc after printing `out`
\* and writing `writes`; a duration above every timeout is a program that hangs
ExecProcs ==
    {[duration |-> d, rc |-> r, out |-> o, writes |-> w] :
        d \in 0..(TimeoutTicks + 1), r \in {0, 1}, o \in OptScores,
        w \in SUBSET OutputFiles}

\* lines 134-147
CheckGeneratedFiles(dir_files) == dir_files \cap OutputFiles

InitExec ==
    /\ AuxIdle
    /\ stage = "execute"
    /\ pc = "idle"
    /\ lower_is_better = TRUE
    /\ result = NoResult
    /\ evaluated = <<>>
    /\ current_code = NoCode
    /\ current_score = None
    /\ MergeIdle
    /\ RefineIdle
    /\ EnsembleIdle
    /\ ex_pc = "write"
    /\ ex_timeout \in 1..TimeoutTicks
    /\ ex_proc \in ExecProcs
    /\ ex_proc_state = "none"
    /\ ex_elapsed = 0
    /\ ex_dir_files \in SUBSET OutputFiles
    /\ ex_result = NoResult

\* lines 35-37: open() and write() are outside the try
ExecWriteFile ==
    /\ ex_pc = "write"
    /\ \E written \in BOOLEAN : ex_pc' = IF written THEN "spawn" ELSE "raised"
    /\ UNCHANGED <<auxVars, loopVars, ex_timeout, ex_proc, ex_proc_state, ex_elapsed,
                   ex_dir_files, ex_result>>

\* lines 42-54 and 90-100: subprocess.run starts the child
ExecSpawn ==
    /\ ex_pc = "spawn"
    /\ \E spawned \in BOOLEAN :
         IF spawned
         THEN /\ ex_pc' = "running"
              /\ ex_proc_state' = "running"
              /\ UNCHANGED ex_result
         ELSE /\ ex_pc' = "returned"
              /\ ex_result' = ExecutionErrorResult(ex_timeout)
              /\ UNCHANGED ex_proc_state
    /\ UNCHANGED <<auxVars, loopVars, ex_timeout, ex_proc, ex_elapsed, ex_dir_files>>

\* the clock, while the child runs and neither it nor the timeout is due
ExecTick ==
    /\ ex_pc = "running"
    /\ ex_proc_state = "running"
    /\ ex_elapsed < ex_timeout
    /\ ex_elapsed < ex_proc.duration
    /\ ex_elapsed' = ex_elapsed + 1
    /\ UNCHANGED <<auxVars, loopVars, ex_pc, ex_timeout, ex_proc, ex_proc_state,
                   ex_dir_files, ex_result>>

\* lines 47-77: the child exited within the timeout
ExecProcessExit ==
    /\ ex_pc = "running"
    /\ ex_proc_state = "running"
    /\ ex_elapsed = ex_proc.duration
    /\ ex_elapsed <= ex_timeout
    /\ ex_proc_state' = "exited"
    /\ ex_dir_files' = ex_dir_files \cup ex_proc.writes
    /\ ex_result' = ExitResult(ex_proc.rc, ex_proc.out,
                               CheckGeneratedFiles(ex_dir_files'))
    /\ ex_pc' = "returned"
    /\ UNCHANGED <<auxVars, loopVars, ex_timeout, ex_proc, ex_elapsed>>

\* lines 47-54 and 79-89: the timeout expired; subprocess.run kills the child,
\* which may have written some of its files, and raises TimeoutExpired
ExecTimeoutExpired ==
    /\ ex_pc = "running"
    /\ ex_proc_state = "running"
    /\ ex_elapsed = ex_timeout
    /\ ex_proc_state' = "killed"
    /\ \E w \in SUBSET ex_proc.writes : ex_dir_files' = ex_dir_files \cup w
    /\ ex_result' = TimeoutResult(ex_timeout)
    /\ ex_pc' = "returned"
    /\ UNCHANGED <<auxVars, loopVars, ex_timeout, ex_proc, ex_elapsed>>

NextExec ==
    \/ ExecWriteFile
    \/ ExecSpawn
    \/ ExecTick
    \/ ExecProcessExit
    \/ ExecTimeoutExpired

SpecExec == InitExec /\ [][NextExec]_vars

\* the operating system runs the interpreter and the clock: a step that
\* stays possible is eventually taken
FairExec == SpecExec /\ WF_vars(NextExec)

(***************************************************************************)
(* One evaluation of a generated candidate: the first execution, then the  *)
(* debug pass where the evaluating code has one.  The sites are            *)
(* InitializationAgent._evaluate_single_model ("init_model"), the merge    *)
(* loop of _merge_solutions ("merge"), RefinementAgent._evaluate_code      *)
(* ("refine"), EnsembleAgent._implement_and_evaluate_plan ("ensemble") and *)
(* a direct call of CodeExecutor.debug_code ("debug_code").                *)
(***************************************************************************)
EvalSites == {"init_model", "merge", "refine", "ensemble"}

\* the sites that pass working_dir = self.workspace_dir to the executions of
\* their debug pass; the others run them in the executor's default directory
DebugDir(site) == IF site = "init_model" THEN "agent" ELSE "default"

Run(dir, name, k) == [dir |-> dir, file |-> <<name, k>>]

InitEval ==
    /\ LoopsIdle("evaluate")
    /\ ExecIdle
    /\ PipeIdle
    /\ PoolIdle
    /\ ScoreIdle
    /\ ChatIdle
    /\ FnIdle
    /\ CollectIdle
    /\ ev_pc = "start"
    /\ ev_site \in EvalSites \cup {"debug_code"}
    /\ ev_config_rounds \in {0, max_debug_rounds}
    /\ ev_max_attempts \in
          IF ev_site = "debug_code" THEN 0..MaxAttempts ELSE {ev_config_rounds}
    /\ ev_effective = 0
    /\ ev_attempt = 0
    /\ ev_code = 0
    /\ ev_first = NoResult
    /\ ev_result \in
          IF ev_site = "debug_code"
          THEN {r \in {ExecuteCode(p) : p \in ProcBehaviours} : ~r.success}
          ELSE {NoResult}
    /\ ev_debugged = FALSE
    /\ ev_runs = <<>>
    /\ ev_return = NoReturn

\* the first execution, and the test that decides on a debug pass
EvalFirstExecution ==
    /\ ev_pc = "start" /\ ev_site \in EvalSites
    /\ \E p \in ProcBehaviours :
         LET r == ExecuteCode(p)
             debug == /\ ev_site # "merge"
                      /\ ~r.success
                      /\ ev_config_rounds > 0
         IN /\ ev_first' = r
            /\ ev_result' = r
            /\ ev_runs' = Append(ev_runs, Run("agent", "first", 0))
            /\ ev_debugged' = debug
            /\ IF debug
               THEN /\ ev_pc' = "debug_loop"
                    /\ ev_effective' = ev_config_rounds
                    /\ UNCHANGED ev_return
               ELSE /\ ev_pc' = "returned"
                    /\ ev_return' = [returned |-> TRUE, code |-> ev_code, result |-> r]
                    /\ UNCHANGED ev_effective
    /\ UNCHANGED <<notEval, ev_site, ev_config_rounds, ev_max_attempts,
                   ev_attempt, ev_code>>

\* debug_code line 199: max_attempts = max_attempts or CONFIG.max_debug_rounds
DebugCodeCalled ==
    /\ ev_pc = "start" /\ ev_site = "debug_code"
    /\ ev_effective' = IF ev_max_attempts # 0 THEN ev_max_attempts ELSE ev_config_rounds
    /\ ev_debugged' = TRUE
    /\ ev_pc' = "debug_loop"
    /\ UNCHANGED <<notEval, ev_site, ev_config_rounds, ev_max_attempts,
                   ev_attempt, ev_code, ev_first, ev_result, ev_runs, ev_return>>

\* one round of the debug loop: patch (or not), re-execute, return on success
DebugAttempt ==
    /\ ev_pc = "debug_loop"
    /\ ev_attempt < ev_effective
    /\ \E gen_ok \in BOOLEAN :
         IF ev_site = "init_model" /\ ~gen_ok
         THEN \* _debug_code: llm_client.get_completion raised
              /\ ev_pc' = "raised"
              /\ UNCHANGED <<ev_attempt, ev_code, ev_result, ev_runs, ev_return>>
         ELSE \E patched \in BOOLEAN, p \in ProcBehaviours :
                LET r == ExecuteCode(p)
                    code == IF patched THEN ev_code + 1 ELSE ev_code
                IN /\ ev_code' = code
                   /\ ev_result' = r
                   /\ ev_runs' = Append(ev_runs, Run(DebugDir(ev_site),
                                                     "debug_attempt", ev_attempt))
                   /\ ev_attempt' = ev_attempt + 1
                   /\ IF r.success
                      THEN /\ ev_pc' = "returned"
                           /\ ev_return' =
                                  [returned |-> TRUE,
                                   code |-> IF ev_site = "refine" THEN 0 ELSE code,
                                   result |-> r]
                      ELSE /\ ev_pc' = "debug_loop"
                           /\ UNCHANGED ev_return
    /\ UNCHANGED <<notEval, ev_site, ev_config_rounds, ev_max_attempts,
                   ev_effective, ev_first, ev_debugged>>

\* the loop ran out: return code, result; result is unbound when the loop
\* body never ran
DebugExhausted ==
    /\ ev_pc = "debug_loop"
    /\ ev_attempt >= ev_effective
    /\ IF ev_attempt = 0
       THEN /\ ev_pc' = "raised"
            /\ UNCHANGED ev_return
       ELSE /\ ev_pc' = "returned"
            /\ ev_return' =
                   [returned |-> TRUE,
                    code |-> IF ev_site = "refine" THEN 0 ELSE ev_code,
                    result |-> ev_result]
    /\ UNCHANGED <<notEval, ev_site, ev_config_rounds, ev_max_attempts,
                   ev_effective, ev_attempt, ev_code, ev_first, ev_result,
                   ev_debugged, ev_runs>>

NextEval ==
    \/ EvalFirstExecution
    \/ DebugCodeCalled
    \/ DebugAttempt
    \/ DebugExhausted

SpecEval == InitEval /\ [][NextEval]_vars

(***************************************************************************)
(* OneAboveAll.run: the four stages in sequence inside one try block.      *)
(***************************************************************************)
StageNames == <<"initialization", "refinement", "ensemble", "submission">>

StageEntry(name, scores, success, score) ==
    [name |-> name, scores |-> scores, success |-> success, score |-> score]

NoEntry == StageEntry("", <<>>, FALSE, None)
Event(ev, name, entry) == [ev |-> ev, stage |-> name, entry |-> entry]

\* the scores of the solutions a stage hands on, one per agent that has one
ScoreLists == UNION {[1..n -> Scores] : n \in 0..num_solutions}

\* what a stage that returns puts in self.results["stages"], given the
\* outputs of the stages before it
StageOutputs(i, scored, refined) ==
    CASE i = 1 -> {StageEntry(StageNames[1], l, l # <<>>, None) : l \in ScoreLists}
      [] i = 2 -> {StageEntry(StageNames[2], l, l # <<>>, None) :
                      l \in {f \in ScoreLists :
                                /\ Len(f) = Len(scored)
                                /\ \A k \in 1..Len(f) : f[k] <= scored[k]}}
      [] i = 3 -> IF Len(refined) < 2
                  THEN {StageEntry(StageNames[3], <<>>, FALSE, None)}
                  ELSE {StageEntry(StageNames[3], <<>>, Defined(sc), sc) :
                            sc \in OptScores}
      [] OTHER -> IF refined = <<>>
                  THEN {StageEntry(StageNames[4], <<>>, FALSE, None)}
                  ELSE {StageEntry(StageNames[4], <<>>, ok, None) : ok \in BOOLEAN}

\* lines 155-162: the except block adds "error" and "traceback" to the record
RecordErrorOnly(stages) == [saved |-> TRUE, stages |-> <<>>, error |-> TRUE]
RecordError(stages) == [saved |-> TRUE, stages |-> stages, error |-> TRUE]

\* the stage called after stage i has returned
SkipStage(i) == IF i = 1 THEN 3 ELSE i + 1
FollowingStage(i) == i + 1

InitPipe ==
    /\ LoopsIdle("pipeline")
    /\ ExecIdle
    /\ EvalIdle
    /\ PoolIdle
    /\ ScoreIdle
    /\ ChatIdle
    /\ FnIdle
    /\ CollectIdle
    /\ pipe_pc = "load"
    /\ pipe_stage = 0
    /\ pipe_stages = <<>>
    /\ pipe_error = FALSE
    /\ pipe_saved = NotSaved
    /\ pipe_log = <<>>
    /\ pipe_init = <<>>
    /\ pipe_refined = <<>>

\* lines 49-54: without a task description run returns the record as it is
LoadTaskDescription ==
    /\ pipe_pc = "load"
    /\ \E found \in BOOLEAN :
         /\ pipe_pc' = IF found THEN "between" ELSE "no_task"
         /\ pipe_stage' = IF found THEN 1 ELSE 0
    /\ UNCHANGED <<notPipe, pipe_stages, pipe_error, pipe_saved,
                   pipe_log, pipe_init, pipe_refined>>

\* lines 61-62, 82-83, 98-99, 117-118: the call of the next stage
StartStage ==
    /\ pipe_pc = "between"
    /\ pipe_log' = Append(pipe_log, Event("start", StageNames[pipe_stage], NoEntry))
    /\ pipe_pc' = "in_stage"
    /\ UNCHANGED <<notPipe, pipe_stage, pipe_stages, pipe_error,
                   pipe_saved, pipe_init, pipe_refined>>

\* lines 66-73, 84-90, 100-107, 123-131 and, after the last stage, 136-153
StageReturns ==
    /\ pipe_pc = "in_stage"
    /\ \E e \in StageOutputs(pipe_stage, pipe_init, pipe_refined) :
         /\ pipe_stages' = Append(pipe_stages, e)
         /\ pipe_init' = IF pipe_stage = 1 THEN e.scores ELSE pipe_init
         /\ pipe_refined' = IF pipe_stage = 2 THEN e.scores ELSE pipe_refined
         /\ pipe_saved' = IF pipe_stage = Len(StageNames)
                          THEN [saved |-> TRUE, stages |-> pipe_stages', error |-> FALSE]
                          ELSE pipe_saved
         /\ pipe_log' = Append(pipe_log, Event("return", StageNames[pipe_stage], e))
    /\ pipe_pc' = IF pipe_stage = Len(StageNames) THEN "completed" ELSE "between"
    /\ pipe_stage' = IF pipe_stage = Len(StageNames) THEN pipe_stage
                     ELSE FollowingStage(pipe_stage)
    /\ UNCHANGED <<notPipe, pipe_error>>

\* lines 155-164: the stage raised; record the error, save, return
StageRaises ==
    /\ pipe_pc = "in_stage"
    /\ pipe_log' = Append(pipe_log, Event("raise", StageNames[pipe_stage], NoEntry))
    /\ pipe_error' = TRUE
    /\ pipe_saved' = RecordError(pipe_stages)
    /\ pipe_pc' = "failed"
    /\ UNCHANGED <<notPipe, pipe_stage, pipe_stages, pipe_init,
                   pipe_refined>>

NextPipe ==
    \/ LoadTaskDescription
    \/ StartStage
    \/ StageReturns
    \/ StageRaises

SpecPipe == InitPipe /\ [][NextPipe]_vars

(***************************************************************************)
(* run_initialization_agents and _evaluate_models: two nested thread pools. *)
(* Evaluations of one agent are counted by phase.                          *)
(***************************************************************************)
\* _evaluate_models line 138: max_workers=min(len(model_candidates), 4)
\* faulty variant: one worker per candidate
PoolSizeUncapped(n) == n
PoolSize(n) == Min(n, 4)

RunningAgents == {a \in Agents : pool_agent_pc[a] \notin {"queued", "done"}}
RunningEvaluations(a) == pool_gen[a] + pool_exec[a]
Subprocesses(a) ==
    pool_exec[a] + (IF pool_agent_pc[a] = "merge_exec" THEN 1 ELSE 0)

InitPool ==
    /\ LoopsIdle("pool")
    /\ ExecIdle
    /\ EvalIdle
    /\ PipeIdle
    /\ PoolIdle
    /\ ScoreIdle
    /\ ChatIdle
    /\ FnIdle
    /\ CollectIdle

\* lines 342-344: a worker of the outer pool takes agent.run
AgentStart(a) ==
    /\ pool_agent_pc[a] = "queued"
    /\ Cardinality(RunningAgents) < num_solutions
    /\ pool_agent_pc' = [pool_agent_pc EXCEPT ![a] = "search"]
    /\ UNCHANGED <<notPool, pool_n, pool_queued, pool_gen, pool_exec, pool_done>>

\* run lines 54-66: summary, search, then the submissions of _evaluate_models;
\* a raise (the model's answer, or max_workers=0) ends the agent's run
SearchModels(a) ==
    /\ pool_agent_pc[a] = "search"
    /\ \E n \in 0..MaxCandidates, raised \in BOOLEAN :
         IF raised \/ n = 0
         THEN /\ pool_agent_pc' = [pool_agent_pc EXCEPT ![a] = "done"]
              /\ UNCHANGED <<pool_n, pool_queued>>
         ELSE /\ pool_agent_pc' = [pool_agent_pc EXCEPT ![a] = "evaluate"]
              /\ pool_n' = [pool_n EXCEPT ![a] = n]
              /\ pool_queued' = [pool_queued EXCEPT ![a] = n]
    /\ UNCHANGED <<notPool, pool_gen, pool_exec, pool_done>>

\* a free worker of the agent's pool takes the next evaluation
TaskStart(a) ==
    /\ pool_agent_pc[a] = "evaluate"
    /\ pool_queued[a] > 0
    /\ RunningEvaluations(a) < PoolSize(pool_n[a])
    /\ pool_queued' = [pool_queued EXCEPT ![a] = @ - 1]
    /\ pool_gen' = [pool_gen EXCEPT ![a] = @ + 1]
    /\ UNCHANGED <<notPool, pool_agent_pc, pool_n, pool_exec, pool_done>>

\* _evaluate_single_model lines 177-192, _debug_code 301-306: the program is
\* written and spawned
TaskExecute(a) ==
    /\ pool_gen[a] > 0
    /\ pool_gen' = [pool_gen EXCEPT ![a] = @ - 1]
    /\ pool_exec' = [pool_exec EXCEPT ![a] = @ + 1]
    /\ UNCHANGED <<notPool, pool_agent_pc, pool_n, pool_queued, pool_done>>

\* the model's answer raised: the future holds the exception
TaskGenerationRaises(a) ==
    /\ pool_gen[a] > 0
    /\ pool_gen' = [pool_gen EXCEPT ![a] = @ - 1]
    /\ pool_done' = [pool_done EXCEPT ![a] = @ + 1]
    /\ UNCHANGED <<notPool, pool_agent_pc, pool_n, pool_queued, pool_exec>>

\* the program has exited or was killed at the timeout: the evaluation
\* returns, or asks the model for a fix (a debug round)
TaskSubprocessExit(a) ==
    /\ pool_exec[a] > 0
    /\ pool_exec' = [pool_exec EXCEPT ![a] = @ - 1]
    /\ \E debug \in BOOLEAN :
         IF debug
         THEN pool_gen' = [pool_gen EXCEPT ![a] = @ + 1] /\ UNCHANGED pool_done
         ELSE pool_done' = [pool_done EXCEPT ![a] = @ + 1] /\ UNCHANGED pool_gen
    /\ UNCHANGED <<notPool, pool_agent_pc, pool_n, pool_queued>>

\* lines 149-163: every future is complete, the with block ends
PoolShutdown(a) ==
    /\ pool_agent_pc[a] = "evaluate"
    /\ pool_done[a] = pool_n[a]
    /\ pool_agent_pc' = [pool_agent_pc EXCEPT ![a] = "merge"]
    /\ UNCHANGED <<notPool, pool_n, pool_queued, pool_gen, pool_exec, pool_done>>

\* _merge_solutions: the agent's own thread runs merged programs one by one
MergeExecute(a) ==
    /\ pool_agent_pc[a] = "merge"
    /\ pool_n[a] >= 2
    /\ pool_agent_pc' = [pool_agent_pc EXCEPT ![a] = "merge_exec"]
    /\ UNCHANGED <<notPool, pool_n, pool_queued, pool_gen, pool_exec, pool_done>>

MergeSubprocessExit(a) ==
    /\ pool_agent_pc[a] = "merge_exec"
    /\ pool_agent_pc' = [pool_agent_pc EXCEPT ![a] = "merge"]
    /\ UNCHANGED <<notPool, pool_n, pool_queued, pool_gen, pool_exec, pool_done>>

AgentReturns(a) ==
    /\ pool_agent_pc[a] = "merge"
    /\ pool_agent_pc' = [pool_agent_pc EXCEPT ![a] = "done"]
    /\ UNCHANGED <<notPool, pool_n, pool_queued, pool_gen, pool_exec, pool_done>>

NextPool ==
    \E a \in Agents :
        \/ AgentStart(a)
        \/ SearchModels(a)
        \/ TaskStart(a)
        \/ TaskExecute(a)
        \/ TaskGenerationRaises(a)
        \/ TaskSubprocessExit(a)
        \/ PoolShutdown(a)
        \/ MergeExecute(a)
        \/ MergeSubprocessExit(a)
        \/ AgentReturns(a)

SpecPool == InitPool /\ [][NextPool]_vars

(***************************************************************************)
(* CodeExecutor._extract_score.  An output is a sequence of tokens: "L" is *)
(* the text "Final Validation Performance:", "l" the same text in lower    *)
(* case, "A" the text "rmse:", "s" a blank, the others single characters.  *)
(* A number is a pair <<m, e>> standing for m * 10^e, m not a multiple of  *)
(* 10 unless it is 0.                                                      *)
(***************************************************************************)
Tokens == {"L", "l", "A", "s", "+", "-", "0", "1", ".", "e"}
DigitTokens == {"0", "1"}
SignTokens == {"+", "-"}
PrimaryLabels == {"L", "l"}        \* line 106, with re.IGNORECASE
\* lines 116-122, in the order of the list: validation score, val_score,
\* rmse, mae, accuracy
AlternativePatterns == <<{"V"}, {"W"}, {"R"}, {"M"}, {"A"}>>
AlternativeLabels == UNION {AlternativePatterns[k] : k \in 1..Len(AlternativePatterns)}

Outputs == UNION {[1..n -> Tokens] : n \in 0..MaxOutputLen}

DigitValue(t) == IF t = "1" THEN 1 ELSE 0

RECURSIVE Decimal(_)
Decimal(d) ==
    IF d = <<>> THEN 0
    ELSE 10 * Decimal(SubSeq(d, 1, Len(d) - 1)) + DigitValue(d[Len(d)])

RECURSIVE Normalise(_, _)
Normalise(m, e) ==
    IF m = 0 THEN <<0, 0>>
    ELSE IF m % 10 = 0 THEN Normalise(m \div 10, e + 1)
    ELSE <<m, e>>

AllDigits(d) == \A k \in 1..Len(d) : d[k] \in DigitTokens

\* the first index from i on whose token is not in S, Len(s) + 1 if none
RECURSIVE RunEnd(_, _, _)
RunEnd(s, i, S) ==
    IF i > Len(s) \/ s[i] \notin S THEN i ELSE RunEnd(s, i + 1, S)

\* the first index of token t in s, 0 if none
IndexOf(s, t) ==
    IF \E k \in 1..Len(s) : s[k] = t
    THEN CHOOSE k \in 1..Len(s) : s[k] = t /\ \A j \in 1..(k - 1) : s[j] # t
    ELSE 0

\* float(text): [sign] digits [. digits] [e [sign] digits], at least one digit
\* in the mantissa
FloatOf(text) ==
    LET epos == IndexOf(text, "e")
        mant == IF epos = 0 THEN text ELSE SubSeq(text, 1, epos - 1)
        expo == IF epos = 0 THEN <<>> ELSE SubSeq(text, epos + 1, Len(text))
        Body(x) == IF x # <<>> /\ x[1] \in SignTokens THEN Tail(x) ELSE x
        Sgn(x) == IF x # <<>> /\ x[1] = "-" THEN -1 ELSE 1
        mb == Body(mant)
        dot == IndexOf(mb, ".")
        ip == IF dot = 0 THEN mb ELSE SubSeq(mb, 1, dot - 1)
        fp == IF dot = 0 THEN <<>> ELSE SubSeq(mb, dot + 1, Len(mb))
        eb == Body(expo)
        valid == /\ AllDigits(ip) /\ AllDigits(fp)
                 /\ Len(ip) + Len(fp) >= 1
                 /\ epos # 0 => (eb # <<>> /\ AllDigits(eb))
        ex == (IF epos = 0 THEN 0 ELSE Sgn(expo) * Decimal(eb)) - Len(fp)
    IN  [valid |-> valid,
         value |-> IF valid THEN Normalise(Sgn(mant) * Decimal(ip \o fp), ex)
                   ELSE <<0, 0>>]

\* the group ([+-]?\d*\.?\d+) matched at index i: the index after the match,
\* 0 if there is no match
MatchNumber(s, i) ==
    LET j == IF i <= Len(s) /\ s[i] \in SignTokens THEN i + 1 ELSE i
        k == RunEnd(s, j, DigitTokens)
        afterDot == IF k <= Len(s) /\ s[k] = "." THEN RunEnd(s, k + 1, DigitTokens)
                    ELSE 0
    IN  IF afterDot > k + 1 THEN afterDot
        ELSE IF k > j THEN k
        ELSE 0

\* re.search(label \s* group): the text of the group at the leftmost match
SearchPattern(s, labels) ==
    LET Matches(p) == /\ s[p] \in labels
                      /\ MatchNumber(s, RunEnd(s, p + 1, {"s"})) # 0
        hits == {p \in 1..Len(s) : Matches(p)}
    IN  IF hits = {} THEN [found |-> FALSE, text |-> <<>>]
        ELSE LET p == CHOOSE q \in hits : \A r \in hits : q <= r
                 b == RunEnd(s, p + 1, {"s"})
             IN  [found |-> TRUE, text |-> SubSeq(s, b, MatchNumber(s, b) - 1)]

\* faulty variant: the five alternative patterns are tried before the marker
ExtractScoreAlternativesFirst(output) ==
    LET first == SearchPattern(output, PrimaryLabels)
        Alt(k) == SearchPattern(output, AlternativePatterns[k])
        hits == {k \in 1..Len(AlternativePatterns) :
                    Alt(k).found /\ FloatOf(Alt(k).text).valid}
    IN  IF hits # {}
        THEN Some(FloatOf(Alt(CHOOSE k \in hits : \A j \in hits : k <= j).text).value)
        ELSE IF first.found /\ FloatOf(first.text).valid
        THEN Some(FloatOf(first.text).value)
        ELSE None

\* lines 102-132: the marker, then the alternative patterns in their order;
\* the first pattern with a match whose text float() accepts gives the score
ExtractScore(output) ==
    LET first == SearchPattern(output, PrimaryLabels)
        Alt(k) == SearchPattern(output, AlternativePatterns[k])
        hits == {k \in 1..Len(AlternativePatterns) :
                    Alt(k).found /\ FloatOf(Alt(k).text).valid}
    IN  IF first.found /\ FloatOf(first.text).valid
        THEN Some(FloatOf(first.text).value)
        ELSE IF hits # {}
        THEN Some(FloatOf(Alt(CHOOSE k \in hits : \A j \in hits : k <= j).text).value)
        ELSE None

InitScore ==
    /\ LoopsIdle("extract_score")
    /\ ExecIdle
    /\ EvalIdle
    /\ PipeIdle
    /\ PoolIdle
    /\ ChatIdle
    /\ FnIdle
    /\ CollectIdle
    /\ sc_pc = "called"
    /\ sc_output \in Outputs
    /\ sc_result = None

ExtractScoreReturns ==
    /\ sc_pc = "called"
    /\ sc_result' = ExtractScore(sc_output)
    /\ sc_pc' = "returned"
    /\ UNCHANGED <<notScore, sc_output>>

NextScore == ExtractScoreReturns

SpecScore == InitScore /\ [][NextScore]_vars

\* outputs made of metric lines only: each line is the marker or one of the
\* five alternative labels, followed by a digit or by nothing
MaxMetricLines == 3
MetricLines ==
    {<<l>> \o d : l \in {"L"} \cup AlternativeLabels, d \in {<<>>, <<"0">>, <<"1">>}}

RECURSIVE JoinLines(_)
JoinLines(ls) == IF ls = <<>> THEN <<>> ELSE Head(ls) \o JoinLines(Tail(ls))

MetricOutputs ==
    {JoinLines(ls) : ls \in UNION {[1..n -> MetricLines] : n \in 0..MaxMetricLines}}

InitMetrics ==
    /\ LoopsIdle("extract_score")
    /\ ExecIdle
    /\ EvalIdle
    /\ PipeIdle
    /\ PoolIdle
    /\ ChatIdle
    /\ FnIdle
    /\ CollectIdle
    /\ sc_pc = "called"
    /\ sc_output \in MetricOutputs
    /\ sc_result = None

SpecMetrics == InitMetrics /\ [][NextScore]_vars

(***************************************************************************)
(* OpenRouterClient.chat_completion: the retry loop                        *)
(***************************************************************************)
\* what a request can meet: status 200 with a JSON body, status 200 with a
\* body that does not decode, status 429, a 4xx/5xx status, any other status
\* (raise_for_status does nothing), a connection error or the 120 s timeout
Responses == {"200", "200_undecodable", "429", "http_error", "other_status",
              "request_error"}

RECURSIVE Pow2(_)
Pow2(n) == IF n = 0 THEN 1 ELSE 2 * Pow2(n - 1)

\* line 64 and line 73
RateLimitWait(attempt) == Min(Pow2(attempt) * 5, 60)
ErrorWait(attempt) == Pow2(attempt)

\* for attempt in range(max_retries), then line 75
\* faulty variant: the loop goes on
RetryAlways(attempt) == "request"
AfterAttempt(attempt) ==
    IF attempt + 1 < max_retries THEN "request" ELSE "raised"

InitChat ==
    /\ LoopsIdle("chat_completion")
    /\ ExecIdle
    /\ EvalIdle
    /\ PipeIdle
    /\ PoolIdle
    /\ ScoreIdle
    /\ FnIdle
    /\ CollectIdle
    /\ ch_pc = "request"
    /\ ch_payload \in [max_tokens : BOOLEAN, response_format : BOOLEAN]
    /\ ch_attempt = 0
    /\ ch_requests = 0
    /\ ch_log = <<>>
    /\ ch_slept = 0
    /\ ch_return = "none"

\* lines 54-73: one requests.post and what the loop body does with its outcome
ChatRequest ==
    /\ ch_pc = "request"
    /\ ch_requests' = ch_requests + 1
    /\ \E resp \in Responses, caught \in BOOLEAN :
         /\ ch_log' = Append(ch_log, resp)
         /\ CASE resp = "200" ->
                   /\ ch_pc' = "returned"
                   /\ ch_return' = "body"
                   /\ UNCHANGED <<ch_attempt, ch_slept>>
              [] resp = "429" ->
                   /\ ch_pc' = AfterAttempt(ch_attempt)
                   /\ ch_slept' = ch_slept + RateLimitWait(ch_attempt)
                   /\ ch_attempt' = ch_attempt + 1
                   /\ ch_return' = IF ch_pc' = "raised" THEN "Max retries exceeded"
                                   ELSE ch_return
              [] resp = "other_status" ->
                   /\ ch_pc' = AfterAttempt(ch_attempt)
                   /\ ch_attempt' = ch_attempt + 1
                   /\ ch_return' = IF ch_pc' = "raised" THEN "Max retries exceeded"
                                   ELSE ch_return
                   /\ UNCHANGED ch_slept
              [] resp = "200_undecodable" /\ ~caught ->
                   \* a decoding error that is no RequestException propagates
                   /\ ch_pc' = "raised"
                   /\ ch_return' = "JSONDecodeError"
                   /\ UNCHANGED <<ch_attempt, ch_slept>>
              [] OTHER ->
                   \* except RequestException, lines 70-73
                   /\ ch_pc' = AfterAttempt(ch_attempt)
                   /\ IF ch_attempt = max_retries - 1
                      THEN /\ ch_return' = "OpenRouter API error"
                           /\ UNCHANGED <<ch_attempt, ch_slept>>
                      ELSE /\ ch_slept' = ch_slept + ErrorWait(ch_attempt)
                           /\ ch_attempt' = ch_attempt + 1
                           /\ UNCHANGED ch_return
    /\ UNCHANGED <<notChat, ch_payload>>

NextChat == ChatRequest

SpecChat == InitChat /\ [][NextChat]_vars
FairChat == SpecChat /\ WF_vars(NextChat)

(***************************************************************************)
(* OpenRouterClient.get_structured_output.  A response is a sequence of    *)
(* tokens: "{" and "}" are braces, "v" is a JSON scalar, "s" is white      *)
(* space, "x" is text that is not JSON.  "{ v }" stands for an object with *)
(* one member.  A parsed value is its nesting depth and its innermost part.*)
(***************************************************************************)
ResponseTokens == {"{", "}", "v", "s", "x"}
Responses21 == UNION {[1..n -> ResponseTokens] : n \in 0..MaxResponseLen}

\* json.loads skips white space between tokens
RECURSIVE Strip(_)
Strip(s) ==
    IF s = <<>> THEN <<>>
    ELSE IF Head(s) = "s" THEN Strip(Tail(s))
    ELSE <<Head(s)>> \o Strip(Tail(s))

RECURSIVE IsJsonTokens(_)
IsJsonTokens(t) ==
    \/ t = <<"v">>
    \/ /\ Len(t) >= 2
       /\ t[1] = "{" /\ t[Len(t)] = "}"
       /\ LET inner == SubSeq(t, 2, Len(t) - 1)
          IN  inner = <<>> \/ IsJsonTokens(inner)

IsJson(s) == IsJsonTokens(Strip(s))

RECURSIVE ParseTokens(_)
ParseTokens(t) ==
    IF t = <<"v">> THEN [depth |-> 0, leaf |-> "scalar"]
    ELSE LET inner == SubSeq(t, 2, Len(t) - 1)
         IN  IF inner = <<>> THEN [depth |-> 1, leaf |-> "empty"]
             ELSE [depth |-> ParseTokens(inner).depth + 1,
                   leaf |-> ParseTokens(inner).leaf]

\* json.loads on text that is JSON
JsonLoads(s) == ParseTokens(Strip(s))

\* line 126: re.search(r'\{.*\}', response, re.DOTALL): from the first "{"
\* to the last "}" after it
BraceSpan(s) ==
    LET opens == {i \in 1..Len(s) : s[i] = "{"}
        first == IF opens = {} THEN 0
                 ELSE CHOOSE i \in opens : \A k \in opens : i <= k
        closes == {j \in 1..Len(s) : s[j] = "}" /\ first # 0 /\ j > first}
        last == IF closes = {} THEN 0
                ELSE CHOOSE j \in closes : \A k \in closes : j >= k
    IN  IF last = 0 THEN [found |-> FALSE, text |-> <<>>]
        ELSE [found |-> TRUE, text |-> SubSeq(s, first, last)]

Returned(v) == [kind |-> "returned", value |-> v, error |-> ""]
Raised(e) == [kind |-> "raised", value |-> <<>>, error |-> e]

\* lines 121-129
GetStructuredOutput(response) ==
    IF IsJson(response) THEN Returned(JsonLoads(response))
    ELSE LET m == BraceSpan(response)
         IN  IF m.found
             THEN IF IsJson(m.text) THEN Returned(JsonLoads(m.text))
                  ELSE Raised("JSONDecodeError")
             ELSE Raised("ValueError: Could not parse JSON from response")

InitStructured ==
    /\ LoopsIdle("get_structured_output")
    /\ ExecIdle
    /\ EvalIdle
    /\ PipeIdle
    /\ PoolIdle
    /\ ScoreIdle
    /\ ChatIdle
    /\ CollectIdle
    /\ fn_pc = "called"
    /\ fn_name = "get_structured_output"
    /\ fn_input \in Responses21
    /\ fn_output = <<>>

GetStructuredOutputReturns ==
    /\ fn_pc = "called" /\ fn_name = "get_structured_output"
    /\ fn_output' = GetStructuredOutput(fn_input)
    /\ fn_pc' = "returned"
    /\ UNCHANGED <<notFn, fn_name, fn_input>>

NextStructured == GetStructuredOutputReturns

SpecStructured == InitStructured /\ [][NextStructured]_vars

(***************************************************************************)
(* run_initialization_agents and _evaluate_models: what the two            *)
(* as_completed loops collect, with every agent and evaluation named.      *)
(***************************************************************************)
\* _evaluate_models lines 149-160: the entry appended for a completed future
\* faulty variant: a future that raised leaves no entry
EntryUnlessRaised(m, raised) ==
    IF raised THEN <<>> ELSE <<[model_id |-> m, raised |-> raised]>>
EvaluationEntry(m, raised) == <<[model_id |-> m, raised |-> raised]>>

InitCollect ==
    /\ LoopsIdle("collect")
    /\ ExecIdle
    /\ EvalIdle
    /\ PipeIdle
    /\ PoolIdle
    /\ ScoreIdle
    /\ ChatIdle
    /\ FnIdle
    /\ CollectIdle

\* lines 342-343: a worker takes agent.run
CollectAgentStart(a) ==
    /\ col_agent[a] = "queued"
    /\ col_agent' = [col_agent EXCEPT ![a] = "search"]
    /\ UNCHANGED <<notCollect, col_n, col_task, col_entries, col_results>>

\* run lines 54-66 and _evaluate_models lines 138-147: the search, then one
\* submit per candidate; a raise (the generator, or max_workers=0) is caught
\* by run
CollectSearch(a) ==
    /\ col_agent[a] = "search"
    /\ \E n \in 0..num_model_candidates, raised \in BOOLEAN :
         IF raised \/ n = 0
         THEN /\ col_agent' = [col_agent EXCEPT ![a] = "caught"]
              /\ UNCHANGED <<col_n, col_task>>
         ELSE /\ col_agent' = [col_agent EXCEPT ![a] = "evaluate"]
              /\ col_n' = [col_n EXCEPT ![a] = n]
              /\ col_task' = [col_task EXCEPT ![a] =
                                [m \in Models |-> IF m <= n THEN "submitted" ELSE "none"]]
    /\ UNCHANGED <<notCollect, col_entries, col_results>>

CollectTaskStart(a, m) ==
    /\ col_agent[a] = "evaluate"
    /\ col_task[a][m] = "submitted"
    /\ Cardinality({k \in Models : col_task[a][k] = "running"}) < PoolSize(col_n[a])
    /\ col_task' = [col_task EXCEPT ![a][m] = "running"]
    /\ UNCHANGED <<notCollect, col_agent, col_n, col_entries, col_results>>

\* _evaluate_single_model returns its dict or raises
CollectTaskEnd(a, m) ==
    /\ col_task[a][m] = "running"
    /\ \E raised \in BOOLEAN :
         col_task' = [col_task EXCEPT ![a][m] = IF raised THEN "raised" ELSE "returned"]
    /\ UNCHANGED <<notCollect, col_agent, col_n, col_entries, col_results>>

\* lines 149-160: as_completed yields a finished future
CollectEntry(a, m) ==
    /\ col_agent[a] = "evaluate"
    /\ col_task[a][m] \in {"raised", "returned"}
    /\ col_entries' = [col_entries EXCEPT ![a] =
                          @ \o EvaluationEntry(m, col_task[a][m] = "raised")]
    /\ col_task' = [col_task EXCEPT ![a][m] = "collected"]
    /\ UNCHANGED <<notCollect, col_agent, col_n, col_results>>

\* line 162 and run lines 66-76: every future was yielded; merge and save,
\* where a raise is caught by run
CollectEvaluated(a) ==
    /\ col_agent[a] = "evaluate"
    /\ \A m \in Models : col_task[a][m] \in {"none", "collected"}
    /\ \E raised \in BOOLEAN :
         col_agent' = [col_agent EXCEPT ![a] = IF raised THEN "caught" ELSE "merged"]
    /\ UNCHANGED <<notCollect, col_n, col_task, col_entries, col_results>>

\* run line 82: return results
CollectAgentReturns(a) ==
    /\ col_agent[a] \in {"caught", "merged"}
    /\ col_agent' = [col_agent EXCEPT ![a] = "returned"]
    /\ UNCHANGED <<notCollect, col_n, col_task, col_entries, col_results>>

\* run_initialization_agents lines 345-348
CollectResult(a) ==
    /\ col_agent[a] = "returned"
    /\ col_results' = Append(col_results, [task_id |-> a])
    /\ col_agent' = [col_agent EXCEPT ![a] = "collected"]
    /\ UNCHANGED <<notCollect, col_n, col_task, col_entries>>

NextCollect ==
    \E a \in Agents :
        \/ CollectAgentStart(a)
        \/ CollectSearch(a)
        \/ \E m \in Models : CollectTaskStart(a, m)
        \/ \E m \in Models : CollectTaskEnd(a, m)
        \/ \E m \in Models : CollectEntry(a, m)
        \/ CollectEvaluated(a)
        \/ CollectAgentReturns(a)
        \/ CollectResult(a)

SpecCollect == InitCollect /\ [][NextCollect]_vars

(***************************************************************************)
(* run_refinement_agents: one RefinementAgent after the other              *)
(***************************************************************************)
\* what an initialization agent returned: its task_id, whether best_solution
\* is a non-empty string, and best_score
InitResult(t, sol, sc) == [task_id |-> t, best_solution |-> sol, best_score |-> sc]
InitResultsOf(t) == {InitResult(t, sol, sc) : sol \in BOOLEAN, sc \in OptScores}

\* one result per agent, in completion order
InitResultLists ==
    {<<x, y>> : x \in InitResultsOf(1), y \in InitResultsOf(2)}
        \cup {<<y, x>> : x \in InitResultsOf(1), y \in InitResultsOf(2)}

\* line 356
IsRefinable(r) == r.best_solution /\ Defined(r.best_score)

Refining(k, ran, results) ==
    [kind |-> "running", next |-> k, ran |-> ran, results |-> results]

InitRefineAll ==
    /\ LoopsIdle("run_refinement_agents")
    /\ ExecIdle
    /\ EvalIdle
    /\ PipeIdle
    /\ PoolIdle
    /\ ScoreIdle
    /\ ChatIdle
    /\ CollectIdle
    /\ fn_pc = "called"
    /\ fn_name = "run_refinement_agents"
    /\ fn_input \in InitResultLists
    /\ fn_output = Refining(1, {}, <<>>)

\* lines 355-364: one iteration; RefinementAgent.run returns its results or
\* raises, and nothing catches the exception
RefineNextResult ==
    /\ fn_name = "run_refinement_agents" /\ fn_pc = "called"
    /\ fn_output.next <= Len(fn_input)
    /\ LET r == fn_input[fn_output.next]
       IN  IF ~IsRefinable(r)
           THEN /\ fn_output' = [fn_output EXCEPT !.next = @ + 1]
                /\ fn_pc' = fn_pc
           ELSE \E raised \in BOOLEAN, final \in Scores :
                  IF raised
                  THEN /\ fn_output' = [fn_output EXCEPT
                                           !.kind = "raised",
                                           !.ran = @ \cup {r.task_id}]
                       /\ fn_pc' = "raised"
                  ELSE /\ fn_output' = [fn_output EXCEPT
                                           !.next = @ + 1,
                                           !.ran = @ \cup {r.task_id},
                                           !.results = Append(@,
                                               [task_id |-> r.task_id,
                                                final_score |-> Some(final)])]
                       /\ fn_pc' = fn_pc
    /\ UNCHANGED <<notFn, fn_name, fn_input>>

\* line 366
RefineAllReturns ==
    /\ fn_name = "run_refinement_agents" /\ fn_pc = "called"
    /\ fn_output.next > Len(fn_input)
    /\ fn_output' = [fn_output EXCEPT !.kind = "returned"]
    /\ fn_pc' = "returned"
    /\ UNCHANGED <<notFn, fn_name, fn_input>>

NextRefineAll == RefineNextResult \/ RefineAllReturns

SpecRefineAll == InitRefineAll /\ [][NextRefineAll]_vars

(***************************************************************************)
(* CodeExecutor.debug_code with its three patches.  Source text and error  *)
(* text are sequences of tokens: a token is a piece of text the patches    *)
(* never split (a quote character, a file name, a newline, a whole import  *)
(* line).                                                                  *)
(***************************************************************************)
\* the longest source handed to debug_code
MaxSourceLen == 5

SourceTokens == {"'", "\"", "train.csv", "test.csv", "\n"}
Sources == UNION {[1..n -> SourceTokens] : n \in 0..MaxSourceLen}

\* _add_import lines 235-242
import_map ==
    [m \in {"sklearn", "xgboost", "lightgbm", "catboost", "torch", "optuna"} |->
        CASE m = "sklearn" -> "from sklearn"
          [] m = "xgboost" -> "import xgboost as xgb"
          [] m = "lightgbm" -> "import lightgbm as lgb"
          [] m = "catboost" -> "from catboost import CatBoostRegressor, CatBoostClassifier"
          [] m = "torch" -> "import torch"
          [] m = "optuna" -> "import optuna"]

\* _fix_undefined_name lines 265-271
fixes ==
    [n \in {"train_test_split", "mean_squared_error", "StandardScaler", "np", "pd"} |->
        CASE n = "train_test_split" -> "from sklearn.model_selection import train_test_split"
          [] n = "mean_squared_error" -> "from sklearn.metrics import mean_squared_error"
          [] n = "StandardScaler" -> "from sklearn.preprocessing import StandardScaler"
          [] n = "np" -> "import numpy as np"
          [] n = "pd" -> "import pandas as pd"]

ImportLines ==
    {import_map[m] : m \in DOMAIN import_map} \cup {fixes[n] : n \in DOMAIN fixes}

\* `import_line not in code` is a test on characters: "from sklearn" is also
\* found inside the three longer lines that begin with it
TokenContains(token, line) ==
    \/ token = line
    \/ /\ line = import_map["sklearn"]
       /\ token \in {fixes["train_test_split"], fixes["mean_squared_error"],
                     fixes["StandardScaler"]}
CodeContains(code, line) == \E k \in 1..Len(code) : TokenContains(code[k], line)

\* str.replace: the occurrences are taken from the left and do not overlap
RECURSIVE Replace(_, _, _)
Replace(s, old, new) ==
    IF Len(s) < Len(old) THEN s
    ELSE IF SubSeq(s, 1, Len(old)) = old
         THEN new \o Replace(SubSeq(s, Len(old) + 1, Len(s)), old, new)
         ELSE <<Head(s)>> \o Replace(Tail(s), old, new)

\* lines 247-254: where the lines of code.split('\n') begin, and the first
\* line that is neither blank nor an import (position 0 when there is none)
LineStarts(code) == {1} \cup {k + 1 : k \in {j \in 1..Len(code) : code[j] = "\n"}}
InsertPos(code) ==
    LET body == {s \in LineStarts(code) :
                    /\ s <= Len(code)
                    /\ code[s] # "\n"
                    /\ code[s] \notin ImportLines}
    IN  IF body = {} THEN 1 ELSE CHOOSE s \in body : \A t \in body : s <= t

\* _add_import lines 244-258
AddImport(code, module) ==
    IF module \in DOMAIN import_map /\ ~CodeContains(code, import_map[module])
    THEN LET pos == InsertPos(code)
         IN  SubSeq(code, 1, pos - 1) \o <<import_map[module], "\n">>
                 \o SubSeq(code, pos, Len(code))
    ELSE code

\* _fix_undefined_name lines 273-278
FixUndefinedName(code, name) ==
    IF name \in DOMAIN fixes /\ ~CodeContains(code, fixes[name])
    THEN <<fixes[name], "\n">> \o code
    ELSE code

\* _fix_file_paths lines 284-287: four replacements, one after the other
RelativePaths ==
    <<  <<"'", "train.csv", "'">>, <<"\"", "train.csv", "\"">>,
        <<"'", "test.csv", "'">>, <<"\"", "test.csv", "\"">>  >>
InputPath(literal) == <<literal[1], "./input/" \o literal[2], literal[3]>>
FixFilePaths(code) ==
    LET c1 == Replace(code, RelativePaths[1], InputPath(RelativePaths[1]))
        c2 == Replace(c1, RelativePaths[2], InputPath(RelativePaths[2]))
        c3 == Replace(c2, RelativePaths[3], InputPath(RelativePaths[3]))
    IN  Replace(c3, RelativePaths[4], InputPath(RelativePaths[4]))

\* an error text: the exception names it contains and what the two regular
\* expressions of debug_code capture from it
ErrorText(words, module, name) == [words |-> words, module |-> module, name |-> name]
ErrorTexts ==
    { ErrorText({"ModuleNotFoundError"}, <<"torch">>, <<>>),
      ErrorText({"ModuleNotFoundError"}, <<"yaml">>, <<>>),
      ErrorText({"NameError"}, <<>>, <<"np">>),
      ErrorText({"FileNotFoundError"}, <<>>, <<>>),
      ErrorText({"ValueError"}, <<>>, <<>>) }

\* debug_code lines 203-219: the patch chosen for an error text
PatchFor(code, error) ==
    IF "ModuleNotFoundError" \in error.words
    THEN IF error.module # <<>> THEN AddImport(code, error.module[1]) ELSE code
    ELSE IF "NameError" \in error.words
    THEN IF error.name # <<>> THEN FixUndefinedName(code, error.name[1]) ELSE code
    ELSE IF "FileNotFoundError" \in error.words
    THEN FixFilePaths(code)
    ELSE code

\* the locals of debug_code: code, error, the loop variable, the files
\* executed so far and the last result
DebugLocals(code, error, attempt, executed, success) ==
    [code |-> code, error |-> error, attempt |-> attempt,
     executed |-> executed, success |-> success]

InitDebug ==
    /\ LoopsIdle("debug_code")
    /\ ExecIdle
    /\ EvalIdle
    /\ PipeIdle
    /\ PoolIdle
    /\ ScoreIdle
    /\ ChatIdle
    /\ CollectIdle
    /\ fn_pc = "called"
    /\ fn_name = "debug_code"
    /\ fn_input \in {[code |-> c, error |-> e, max_attempts |-> MaxAttempts] :
                        c \in Sources, e \in ErrorTexts}
    /\ fn_output = DebugLocals(fn_input.code, fn_input.error, 0, <<>>, FALSE)

\* lines 201-227: one iteration: patch, re-execute, return on success, else
\* go on with the new stderr
DebugIteration ==
    /\ fn_name = "debug_code" /\ fn_pc = "called"
    /\ fn_output.attempt < fn_input.max_attempts
    /\ LET code == PatchFor(fn_output.code, fn_output.error)
           file == fn_output.attempt
       IN  \/ /\ fn_output' = DebugLocals(code, fn_output.error, fn_output.attempt + 1,
                                          Append(fn_output.executed, file), TRUE)
              /\ fn_pc' = "returned"
           \/ \E stderr \in ErrorTexts :
                /\ fn_output' = DebugLocals(code, stderr, fn_output.attempt + 1,
                                            Append(fn_output.executed, file), FALSE)
                /\ fn_pc' = fn_pc
    /\ UNCHANGED <<notFn, fn_name, fn_input>>

\* line 229: the loop ran out
DebugReturns ==
    /\ fn_name = "debug_code" /\ fn_pc = "called"
    /\ fn_output.attempt >= fn_input.max_attempts
    /\ fn_pc' = "returned"
    /\ UNCHANGED <<notFn, fn_name, fn_input, fn_output>>

NextDebug == DebugIteration \/ DebugReturns

SpecDebug == InitDebug /\ [][NextDebug]_vars

(***************************************************************************)
(* The concurrent evaluations of one initialization agent, with the write  *)
(* of the program file and the spawn of the interpreter on it as separate  *)
(* steps.  All evaluations run in the agent's workspace_dir.               *)
(***************************************************************************)
\* the source an evaluation holds: generated for model m (version 0) or the
\* fix returned for debug attempt version - 1
Source(m, version) == <<m, version>>
NoSource == <<>>

\* _evaluate_single_model line 190 and _debug_code line 304
EvalFile(m) == <<"model_eval", m>>
DebugFile(attempt) == <<"debug_attempt", attempt>>
FileNames ==
    {EvalFile(m) : m \in Models} \cup {DebugFile(k) : k \in 0..(max_debug_rounds - 1)}

\* one execute_code call between its write and its spawn, and after it
Execution(passed, program) == [passed |-> passed, program |-> program]
NoExecution == Execution(NoSource, NoSource)

EvaluationsStart(n) ==
    [files |-> [f \in FileNames |-> NoSource],
     n |-> n,
     at |-> [m \in Models |-> IF m <= n THEN "start" ELSE "unused"],
     attempt |-> [m \in Models |-> 0],
     last |-> [m \in Models |-> NoExecution]]

InitEvaluations ==
    /\ LoopsIdle("evaluate_models")
    /\ ExecIdle
    /\ EvalIdle
    /\ PipeIdle
    /\ PoolIdle
    /\ ScoreIdle
    /\ ChatIdle
    /\ CollectIdle
    /\ fn_pc = "called"
    /\ fn_name = "evaluate_models"
    /\ fn_input \in [n : 1..num_model_candidates, rounds : {0, max_debug_rounds}]
    /\ fn_output = EvaluationsStart(fn_input.n)

\* execute_code lines 35-37, called from _evaluate_single_model line 188
EvaluationWrites(m) ==
    /\ fn_name = "evaluate_models" /\ fn_output.at[m] = "start"
    /\ fn_output' = [fn_output EXCEPT
                        !.files[EvalFile(m)] = Source(m, 0),
                        !.at[m] = "written"]
    /\ UNCHANGED <<notFn, fn_pc, fn_name, fn_input>>

\* execute_code lines 46-53: the interpreter runs what the file holds now;
\* then _evaluate_single_model line 195
EvaluationSpawns(m) ==
    /\ fn_name = "evaluate_models" /\ fn_output.at[m] = "written"
    /\ \E success \in BOOLEAN :
         fn_output' = [fn_output EXCEPT
                          !.last[m] = Execution(Source(m, 0), fn_output.files[EvalFile(m)]),
                          !.at[m] = IF ~success /\ fn_input.rounds > 0
                                    THEN "debug" ELSE "done"]
    /\ UNCHANGED <<notFn, fn_pc, fn_name, fn_input>>

\* _debug_code lines 286-306 with execute_code lines 35-37
DebugWrites(m) ==
    /\ fn_name = "evaluate_models" /\ fn_output.at[m] = "debug"
    /\ fn_output.attempt[m] < fn_input.rounds
    /\ fn_output' = [fn_output EXCEPT
                        !.files[DebugFile(fn_output.attempt[m])] =
                            Source(m, fn_output.attempt[m] + 1),
                        !.at[m] = "debug_written"]
    /\ UNCHANGED <<notFn, fn_pc, fn_name, fn_input>>

\* execute_code lines 46-53, then _debug_code lines 308-314
DebugSpawns(m) ==
    /\ fn_name = "evaluate_models" /\ fn_output.at[m] = "debug_written"
    /\ \E success \in BOOLEAN :
         LET k == fn_output.attempt[m]
         IN  fn_output' = [fn_output EXCEPT
                              !.last[m] = Execution(Source(m, k + 1),
                                                    fn_output.files[DebugFile(k)]),
                              !.attempt[m] = k + 1,
                              !.at[m] = IF success \/ k + 1 >= fn_input.rounds
                                        THEN "done" ELSE "debug"]
    /\ UNCHANGED <<notFn, fn_pc, fn_name, fn_input>>

\* _evaluate_models line 163: every future has completed
EvaluationsReturn ==
    /\ fn_name = "evaluate_models" /\ fn_pc = "called"
    /\ \A m \in Models : fn_output.at[m] \in {"done", "unused"}
    /\ fn_pc' = "returned"
    /\ UNCHANGED <<notFn, fn_name, fn_input, fn_output>>

NextEvaluations ==
    \/ \E m \in Models : EvaluationWrites(m)
    \/ \E m \in Models : EvaluationSpawns(m)
    \/ \E m \in Models : DebugWrites(m)
    \/ \E m \in Models : DebugSpawns(m)
    \/ EvaluationsReturn

SpecEvaluations == InitEvaluations /\ [][NextEvaluations]_vars

(***************************************************************************)
(* HyperoptAgent.run                                                       *)
(***************************************************************************)
\* line 52: the timeout of the search execution
hyperopt_timeout == 900

\* lines 24-31
HyperoptResults(score) ==
    [original_score |-> score, best_score |-> score,
     best_params |-> FALSE, optimized_code |-> FALSE]

HyperoptLocals(at, results, search, final) ==
    [at |-> at, results |-> results, result |-> search, final_result |-> final]

\* `x and y.get("score")`: None and 0 are both false
Truthy(score) == Defined(score) /\ Val(score) # 0

InitHyperopt ==
    /\ LoopsIdle("hyperopt")
    /\ ExecIdle
    /\ EvalIdle
    /\ PipeIdle
    /\ PoolIdle
    /\ ScoreIdle
    /\ ChatIdle
    /\ CollectIdle
    /\ fn_pc = "called"
    /\ fn_name = "HyperoptAgent.run"
    /\ fn_input \in [current_score : {Some(v) : v \in Scores}, lower_is_better : BOOLEAN]
    /\ fn_output = HyperoptLocals("prepare", HyperoptResults(fn_input.current_score),
                                  NoResult, NoResult)

\* lines 33-45: three completions of the language model, each of which may
\* raise
HyperoptPrepare ==
    /\ fn_name = "HyperoptAgent.run" /\ fn_pc = "called" /\ fn_output.at = "prepare"
    /\ \E raised \in BOOLEAN :
         IF raised
         THEN fn_pc' = "raised" /\ fn_output' = fn_output
         ELSE fn_pc' = fn_pc /\ fn_output' = [fn_output EXCEPT !.at = "search"]
    /\ UNCHANGED <<notFn, fn_name, fn_input>>

\* lines 47-55 and 74: the search; a failed search ends the run
HyperoptSearch ==
    /\ fn_name = "HyperoptAgent.run" /\ fn_pc = "called" /\ fn_output.at = "search"
    /\ \E p \in ProcBehaviours :
         LET r == IF p.timed_out THEN TimeoutResult(hyperopt_timeout)
                  ELSE ExitResult(p.rc, p.out, {})
         IN  IF r.success
             THEN /\ fn_output' = [fn_output EXCEPT !.at = "apply", !.result = r]
                  /\ fn_pc' = fn_pc
             ELSE /\ fn_output' = [fn_output EXCEPT !.at = "returned", !.result = r]
                  /\ fn_pc' = "returned"
    /\ UNCHANGED <<notFn, fn_name, fn_input>>

\* lines 56-61: the best parameters are read from the output and applied by
\* the language model
HyperoptApplyBestParams ==
    /\ fn_name = "HyperoptAgent.run" /\ fn_pc = "called" /\ fn_output.at = "apply"
    /\ \E raised \in BOOLEAN :
         IF raised
         THEN fn_pc' = "raised" /\ fn_output' = fn_output
         ELSE /\ fn_pc' = fn_pc
              /\ fn_output' = [fn_output EXCEPT !.at = "validate",
                                                !.results.best_params = TRUE]
    /\ UNCHANGED <<notFn, fn_name, fn_input>>

\* lines 63-74: the final validation and what it puts into results
HyperoptValidate ==
    /\ fn_name = "HyperoptAgent.run" /\ fn_pc = "called" /\ fn_output.at = "validate"
    /\ \E p \in ProcBehaviours :
         LET r == ExecuteCode(p)
         IN  fn_output' =
               [fn_output EXCEPT
                  !.at = "returned",
                  !.final_result = r,
                  !.results = IF r.success /\ Truthy(r.score)
                              THEN [@ EXCEPT !.best_score = r.score,
                                             !.optimized_code = TRUE]
                              ELSE @]
    /\ fn_pc' = "returned"
    /\ UNCHANGED <<notFn, fn_name, fn_input>>

NextHyperopt ==
    \/ HyperoptPrepare
    \/ HyperoptSearch
    \/ HyperoptApplyBestParams
    \/ HyperoptValidate

SpecHyperopt == InitHyperopt /\ [][NextHyperopt]_vars

Init == InitMerge \/ InitRefine \/ InitEnsemble

Next ==
    \/ MergeBegin \/ MergeIteration \/ MergeFinish
    \/ RunAblationStudy \/ ExtractBlockAndPlan \/ TryInitialPlan
    \/ GenerateRefinedPlan \/ ImplementAndEvaluate \/ FindBestImprovement
    \/ RefineFinish
    \/ EnsembleBegin \/ EnsGenerateRefinedPlan \/ EnsImplementAndEvaluate
    \/ EnsembleFinish \/ SelectBestSolution

Spec == Init /\ [][Next]_vars

(***************************************************************************)
(* Properties of the improvement loops                                     *)
(***************************************************************************)
\* a is strictly better than b under the objective; false when either is
\* undefined
StrictlyBetter(a, b) ==
    /\ Defined(a) /\ Defined(b)
    /\ IF lower_is_better THEN Val(a) < Val(b) ELSE Val(a) > Val(b)

\* the best of a non-empty set of score values under the objective
BestOf(S) ==
    CHOOSE v \in S : \A w \in S : IF lower_is_better THEN v <= w ELSE v >= w

DefinedScores(log) == {Val(r.score) : r \in {x \in Range(log) : Defined(x.score)}}
SucceededScores(log) ==
    {Val(r.score) : r \in {x \in Range(log) : x.success /\ Defined(x.score)}}

\* the steps that are one iteration of a loop
MergeIterated == stage = "merge" /\ pc = "merge_loop" /\ merge_i' = merge_i + 1
OuterStepped == stage = "refine" /\ step' = step + 1
EnsIterated == stage = "ensemble" /\ pc = "ens_eval" /\ iteration' = iteration + 1
IncumbentReplaced ==
    <<current_code', current_score'>> # <<current_code, current_score>>
EnsIncumbentReplaced == <<best_code', best_score'>> # <<best_code, best_score>>
OutsideIterationsUnchanged ==
    /\ (pc # "merge_start" /\ ~MergeIterated /\ ~OuterStepped) => ~IncumbentReplaced
    /\ (pc # "ens_start" /\ ~EnsIterated) => ~EnsIncumbentReplaced

\* C1 as stated: in the merge loop, the refinement outer loop and the ensemble
\* loop the incumbent is replaced in an iteration exactly when the new
\* candidate's evaluation produced a defined score strictly better than the
\* incumbent's, and is unchanged otherwise.
C1_ReplacedIffScoreBetter ==
    [][/\ MergeIterated =>
            (IncumbentReplaced <=> StrictlyBetter(result'.score, current_score))
       /\ EnsIterated =>
            (EnsIncumbentReplaced <=> StrictlyBetter(result'.score, best_score))
       /\ OuterStepped =>
            (IncumbentReplaced <=>
                \E k \in 1..Len(improvements) :
                    StrictlyBetter(improvements[k].score, current_score))
       /\ OutsideIterationsUnchanged]_vars

\* C1 amended: the incumbent is replaced in an iteration exactly when the new
\* candidate's evaluation succeeded (exit status 0) and produced a defined
\* score strictly better than the incumbent's; it is then replaced by that
\* candidate's score, and is unchanged in every other case.
C1_ReplacedIffSucceededAndBetter ==
    [][/\ MergeIterated =>
            /\ IncumbentReplaced <=>
                  (result'.success /\ StrictlyBetter(result'.score, current_score))
            /\ IncumbentReplaced => current_score' = result'.score
       /\ EnsIterated =>
            /\ EnsIncumbentReplaced <=>
                  (result'.success /\ StrictlyBetter(result'.score, best_score))
            /\ EnsIncumbentReplaced => best_score' = result'.score
       /\ OuterStepped =>
            /\ IncumbentReplaced <=>
                  \E k \in 1..Len(improvements) :
                      /\ improvements[k].success
                      /\ StrictlyBetter(improvements[k].score, current_score)
            /\ IncumbentReplaced =>
                  \E k \in 1..Len(improvements) :
                      /\ improvements[k].success
                      /\ current_score' = improvements[k].score
                      /\ current_code' = improvements[k].code
       /\ OutsideIterationsUnchanged]_vars

\* a merged program that succeeded with a score strictly better than the
\* best initial solution's has replaced it as the incumbent
C1_Witness ==
    /\ stage = "merge" /\ pc = "merge_loop"
    /\ current_code.kind = "merged"
    /\ result.success /\ current_score = result.score
    /\ StrictlyBetter(current_score, successful[1].score)

\* the states in which a loop has ended
MergeLoopEnded == stage = "merge" /\ pc = "agent_done" /\ merge_i >= 1
InnerLoopEnded == stage = "refine" /\ pc = "outer_head" /\ Defined(base_score)
EnsLoopEnded ==
    /\ stage = "ensemble"
    /\ pc = "ens_break" \/ (pc = "ens_loop" /\ iteration > ensemble_loop_rounds)

C3_FailureNeverAborts == pc \notin {"raised", "agent_error"}

\* C4: in the refinement stage the incumbent score never becomes worse, the
\* final score is never worse than the initial score, and when no outer step
\* improved the final code and score are exactly the seed's.
C4_RefinementNeverWorse ==
    [][stage = "refine" =>
          /\ ~StrictlyBetter(current_score, current_score')
          /\ pc' = "refine_done" =>
                /\ ~StrictlyBetter(initial_score', final_score')
                /\ (\A k \in 1..Len(refinement_steps') :
                        ~refinement_steps'[k].improved)
                      => (final_code' = initial_code' /\ final_score' = initial_score')]_vars

\* a refinement that ended with both outer steps run, the first rejected and
\* the second improving
C4_Witness ==
    /\ stage = "refine" /\ pc = "refine_done"
    /\ Len(refinement_steps) = 2
    /\ ~refinement_steps[1].improved /\ refinement_steps[2].improved
    /\ StrictlyBetter(final_score, initial_score)

\* some earlier result of the ensemble loop succeeded with a score, so its
\* plan generator is called
EnsGeneratorCalled ==
    \E k \in 1..Len(ensemble_iterations) :
        ensemble_iterations[k].success /\ Defined(ensemble_iterations[k].score)

\* C5: when the generator returns a plan identical to one already tried, the
\* refinement inner loop and the ensemble loop stop at that proposal: nothing
\* is added to the history and nothing further is evaluated.
C5_IdenticalPlanStops ==
    [][/\ (/\ stage = "refine" /\ pc = "inner_loop"
           /\ pc' \in {"inner_select", "inner_eval"}
           /\ new_plan' \in Range(plans_tried))
          => (pc' = "inner_select"
                 /\ UNCHANGED <<plans_tried, improvements, evaluated>>)
       /\ (stage = "refine" /\ pc = "inner_select")
          => (pc' = "outer_head" /\ UNCHANGED <<plans_tried, improvements, evaluated>>)
       /\ (/\ stage = "ensemble" /\ pc = "ens_loop" /\ EnsGeneratorCalled
           /\ pc' \in {"ens_break", "ens_eval"}
           /\ refined_plan' \in Range(ensemble_plans))
          => (pc' = "ens_break"
                 /\ UNCHANGED <<ensemble_plans, ensemble_iterations, evaluated>>)
       /\ (stage = "ensemble" /\ pc = "ens_break")
          => (pc' \notin {"ens_loop", "ens_eval"}
                 /\ UNCHANGED <<ensemble_plans, evaluated>>)]_vars

\* the refinement inner loop stopped on a proposal equal to a tried plan
\* while it had iterations left
C5_Witness ==
    /\ stage = "refine" /\ pc = "inner_select"
    /\ new_plan \in Range(plans_tried)
    /\ inner_iter < inner_loop_rounds


\* two plans, one contained in the other when case is ignored
NearDuplicates(p, q) ==
    IsSubstring(Lower(p), Lower(q)) \/ IsSubstring(Lower(q), Lower(p))

\* C6 as stated: no two plans in the history of a refinement inner loop or of
\* the ensemble loop are in the case-insensitive substring relation.
C6_NoNearDuplicatePlans ==
    /\ \A i, j \in 1..Len(plans_tried) :
          i # j => ~NearDuplicates(plans_tried[i], plans_tried[j])
    /\ \A i, j \in 1..Len(ensemble_plans) :
          i # j => ~NearDuplicates(ensemble_plans[i], ensemble_plans[j])

\* the defined scores that the stage in progress compares with one another,
\* one entry per candidate
ScoresOfSeq(s) == [k \in 1..Len(s) |-> s[k].score]
DefinedOnly(s) == SelectSeq(s, LAMBDA x : Defined(x))
ComparedScores ==
    DefinedOnly(
        CASE stage = "merge" ->
                 ScoresOfSeq(successful) \o <<current_score>> \o ScoresOfSeq(evaluated)
          [] stage = "refine" -> <<current_score>> \o ScoresOfSeq(improvements)
          [] stage = "ensemble" -> <<best_score>> \o ScoresOfSeq(ensemble_iterations)
          [] stage = "submission" /\ pc = "selected" ->
                 ScoresOfSeq(Candidates(refined_solutions, ensemble_result))
          [] OTHER -> <<>>)
BetterScore(a, b) == IsImproved(Val(a), Val(b), lower_is_better)
BetterIsTransitive(cs) ==
    \A i, j, k \in 1..Len(cs) :
        (BetterScore(cs[i], cs[j]) /\ BetterScore(cs[j], cs[k]))
            => BetterScore(cs[i], cs[k])

\* C7 as stated: for any two candidates with defined scores exactly one of
\* "better" and "worse" holds, and the relation is transitive.
C7_ExactlyOneOfBetterWorse ==
    LET cs == ComparedScores
    IN /\ \A i, j \in 1..Len(cs) :
             i # j => (BetterScore(cs[i], cs[j]) # BetterScore(cs[j], cs[i]))
       /\ BetterIsTransitive(cs)

\* C7 amended: for any two candidates with defined scores exactly one of
\* "better" and "worse" holds when the scores differ and neither holds when
\* they are equal, and the relation is transitive.
C7_StrictOrderOnScores ==
    LET cs == ComparedScores
    IN /\ \A i, j \in 1..Len(cs) :
             IF cs[i] = cs[j]
             THEN ~BetterScore(cs[i], cs[j]) /\ ~BetterScore(cs[j], cs[i])
             ELSE BetterScore(cs[i], cs[j]) # BetterScore(cs[j], cs[i])
       /\ BetterIsTransitive(cs)

\* the submission stage has compared three candidates with pairwise
\* different scores
C7_Witness ==
    /\ stage = "submission" /\ pc = "selected"
    /\ LET cs == ComparedScores
       IN \E i, j, k \in 1..Len(cs) :
              BetterScore(cs[i], cs[j]) /\ BetterScore(cs[j], cs[k])

\* the selections: the initialization agent's best solution, the refinement
\* incumbent, the ensemble's best and the submission's choice
EnsembleSelected == stage = "submission" /\ ensemble_result.has_best
SubmissionSelected == stage = "submission" /\ pc = "selected"

EnsembleEntryOf(code) == ensemble_iterations[code.a + 1]

\* C9 as stated: an execution with a nonzero return code is a failure even
\* when it printed a score, and a failed candidate is never the incumbent nor
\* the reported best of a stage.
C9_FailedNeverAdopted ==
    /\ \A k \in 1..Len(evaluated) :
          evaluated[k].returncode # 0 => ~evaluated[k].success
    /\ (stage = "merge" /\ current_code.kind = "merged") => result.success
    /\ (stage = "ensemble" /\ Defined(best_score))
          => EnsembleEntryOf(best_code).success
    /\ (EnsembleSelected /\ Defined(ensemble_result.best_ensemble_score))
          => EnsembleEntryOf(ensemble_result.best_ensemble_code).success
    /\ (SubmissionSelected /\ best_candidate.source = 0)
          => EnsembleEntryOf(best_candidate.code).success

(***************************************************************************)
(* Properties of execute_code                                              *)
(***************************************************************************)
\* the child is still running when the timeout expires
TimeoutDue ==
    /\ ex_pc = "running" /\ ex_proc_state = "running"
    /\ ex_elapsed = ex_timeout
    /\ ex_proc.duration > ex_timeout

\* C10: when the program is still running at the timeout, execute_code kills
\* it and returns success false, return code -1, no score, no generated files
\* and a stderr that states the timeout; a running execution always returns.
C10_TimeoutReturnsFailure ==
    /\ [][TimeoutDue =>
             /\ ex_pc' = "returned"
             /\ ex_proc_state' = "killed"
             /\ ~ex_result'.success
             /\ ex_result'.returncode = -1
             /\ ex_result'.score = None
             /\ ex_result'.generated_files = {}
             /\ ex_result'.stderr[1] = "Execution timed out after"
             /\ ex_result'.stderr[2] = ex_timeout]_vars
    /\ (ex_pc = "running") ~> (ex_pc = "returned")

\* a program that would have printed a score and had written its output file
\* was killed at the timeout
C10_Witness ==
    /\ ex_pc = "returned" /\ ex_proc_state = "killed"
    /\ ex_elapsed = ex_timeout
    /\ Defined(ex_proc.out)
    /\ ex_proc.writes # {} /\ ex_proc.writes \subseteq ex_dir_files


\* C11 as stated: execute_code never raises to its caller; every host-level
\* failure while writing the source file, spawning or running the process is
\* returned as a result with success false and an explanatory stderr.
C11_NeverRaises ==
    /\ ex_pc # "raised"
    /\ (ex_pc = "returned" /\ ex_proc_state = "none")
          => (~ex_result.success /\ ex_result.stderr # <<>>)


(***************************************************************************)
(* Properties of the candidate evaluation and its debug pass               *)
(***************************************************************************)
\* C12 as stated: debug_code(code, error, max_attempts) performs at most
\* max_attempts re-executions, for every max_attempts >= 0.
C12_AtMostMaxAttempts ==
    ev_site = "debug_code" => ev_attempt <= ev_max_attempts

\* C13 as stated: an evaluation of a generated candidate is followed by a
\* debug pass exactly when its first execution failed and the debug budget is
\* greater than 0.
C13_DebugPassIffFailedWithBudget ==
    (ev_site \in EvalSites /\ ev_pc # "start")
        => (ev_debugged <=> (~ev_first.success /\ ev_config_rounds > 0))

(***************************************************************************)
(* C14, C15: the orchestrator                                              *)
(***************************************************************************)
\* the entries the stages that returned have handed to run, in call order
RECURSIVE ReturnedEntries(_)
ReturnedEntries(log) ==
    IF log = <<>> THEN <<>>
    ELSE LET rest == ReturnedEntries(SubSeq(log, 1, Len(log) - 1))
             last == log[Len(log)]
         IN  IF last.ev = "return" THEN Append(rest, last.entry) ELSE rest

\* C14: when a stage raises, run catches the exception and halts there: no
\* stage is called afterwards, the record keeps the entry of every stage that
\* had returned exactly as that stage returned it, it gains the error and
\* traceback fields, and it is written to the results file.
C14_RaiseHaltsAndIsRecorded ==
    /\ \A k \in 1..Len(pipe_log) : pipe_log[k].ev = "raise" => k = Len(pipe_log)
    /\ (pipe_log # <<>> /\ pipe_log[Len(pipe_log)].ev = "raise")
          => /\ pipe_pc = "failed"
             /\ pipe_error
             /\ pipe_stages = ReturnedEntries(pipe_log)
             /\ pipe_saved = [saved |-> TRUE, stages |-> pipe_stages, error |-> TRUE]

C14_Witness ==
    /\ pipe_pc = "failed"
    /\ Len(pipe_stages) = 2
    /\ pipe_log[Len(pipe_log)] = Event("raise", "ensemble", NoEntry)

\* C15: the stages run in the order initialization, refinement, ensemble,
\* submission: the k-th call is the call of the k-th stage and is made only
\* after the call before it has returned, and the record holds the entries of
\* a prefix of that order.
C15_StagesInOrder ==
    /\ Len(pipe_stages) <= Len(StageNames)
    /\ \A k \in 1..Len(pipe_stages) : pipe_stages[k].name = StageNames[k]
    /\ \A k \in 1..Len(pipe_log) :
         IF k % 2 = 1
         THEN /\ pipe_log[k].ev = "start"
              /\ pipe_log[k].stage = StageNames[(k + 1) \div 2]
              /\ k > 1 => pipe_log[k - 1].ev = "return"
         ELSE /\ pipe_log[k].ev \in {"return", "raise"}
              /\ pipe_log[k].stage = pipe_log[k - 1].stage
    /\ Len(pipe_stages) = Len(ReturnedEntries(pipe_log))

C15_Witness ==
    /\ pipe_pc = "completed"
    /\ Len(pipe_stages) = 4
    /\ pipe_saved.saved


(***************************************************************************)
(* C16: the submission's choice                                            *)
(***************************************************************************)
\* the programs the submission may choose from: every refined solution with
\* a program and a final score, and the ensemble's best if it has both
SubmissionPool ==
    {[code |-> refined_solutions[k].final_code,
      score |-> refined_solutions[k].final_score,
      source |-> refined_solutions[k].task_id] :
        k \in {j \in 1..Len(refined_solutions) :
                  /\ refined_solutions[j].final_code # NoCode
                  /\ Defined(refined_solutions[j].final_score)}}
    \cup (IF ensemble_result.best_ensemble_code # NoCode
             /\ Defined(ensemble_result.best_ensemble_score)
          THEN {[code |-> ensemble_result.best_ensemble_code,
                 score |-> ensemble_result.best_ensemble_score, source |-> 0]}
          ELSE {})

\* C16: the submission selects from the pool a candidate whose score no other
\* candidate of the pool beats under the configured direction, and selects
\* nothing only when the pool is empty.
C16_SelectsOptimalCandidate ==
    SubmissionSelected
        => LET pool == SubmissionPool
           IN  IF pool = {} THEN best_candidate = NoCandidate
               ELSE /\ best_candidate \in pool
                    /\ \A c \in pool :
                          ~StrictlyBetter(c.score, best_candidate.score)

\* the ensemble's best is chosen over a refined solution with a worse score
C16_Witness ==
    /\ SubmissionSelected
    /\ best_candidate # NoCandidate
    /\ best_candidate.source = 0
    /\ \E c \in SubmissionPool : StrictlyBetter(best_candidate.score, c.score)


(***************************************************************************)
(* C17: where an evaluation writes and runs its programs                   *)
(***************************************************************************)
\* C17 as stated: every program an agent's evaluation writes and executes,
\* the re-executions of its debug pass included, lies in the working
\* directory of that agent.
C17_RunsInOwnDirectory ==
    ev_site \in EvalSites
        => \A k \in 1..Len(ev_runs) : ev_runs[k].dir = "agent"


(***************************************************************************)
(* C18: the pools of the initialization stage                              *)
(***************************************************************************)
\* C18: during initialization at most num_agents agents run at a time, each
\* agent runs at most min(number of its model candidates, 4) evaluations at
\* a time, and the programs running for an agent never exceed that number.
C18_WithinPoolBounds ==
    /\ Cardinality(RunningAgents) <= num_solutions
    /\ \A a \in Agents :
         pool_agent_pc[a] \in {"evaluate", "merge", "merge_exec"}
            => LET cap == IF pool_n[a] < 4 THEN pool_n[a] ELSE 4
               IN  /\ RunningEvaluations(a) <= cap
                   /\ Subprocesses(a) <= cap

\* one agent has more candidates than workers and all its workers run a
\* program while another agent runs one too
C18_Witness ==
    \E a, b \in Agents :
        /\ a # b
        /\ pool_n[a] > 4
        /\ pool_exec[a] = 4
        /\ pool_queued[a] > 0
        /\ pool_exec[b] > 0


(***************************************************************************)
(* C19: the score read from a program's output                             *)
(***************************************************************************)
\* the output holds the marker once, and what follows it is a float literal
MarkerThenLiteral(output, p) ==
    /\ output[p] = "L"
    /\ \A q \in 1..Len(output) : output[q] \in PrimaryLabels => q = p
    /\ FloatOf(SubSeq(output, p + 1, Len(output))).valid

\* C19 as stated: for an output with exactly one marker followed by a float
\* literal, signed, with a decimal point or in scientific notation,
\* _extract_score returns the value of that literal; for an output without
\* any marker it returns None.
C19_ReturnsTheLiteralValue ==
    sc_pc = "returned"
        => /\ \A p \in 1..Len(sc_output) :
                 MarkerThenLiteral(sc_output, p)
                    => sc_result
                         = Some(FloatOf(SubSeq(sc_output, p + 1, Len(sc_output))).value)
           /\ (\A q \in 1..Len(sc_output) :
                  sc_output[q] \notin PrimaryLabels \cup AlternativeLabels)
                 => sc_result = None


(***************************************************************************)
(* C20: the retry loop of chat_completion                                  *)
(***************************************************************************)
ChatDone == ch_pc \in {"returned", "raised"}

\* C20: a call of chat_completion ends after at most 3 HTTP requests: it
\* returns the body of a response with status 200 or it raises; rate limits
\* and request errors never lead to a fourth request, and three attempts
\* without a usable response end in an exception.
C20_EndsWithinThreeRequests ==
    /\ [](/\ ch_requests <= 3
          /\ ch_requests = Len(ch_log)
          /\ ch_pc = "returned"
                => (ch_log[Len(ch_log)] = "200" /\ ch_return = "body")
          /\ (ch_requests = 3 /\ ch_log[3] # "200")
                => (ch_pc = "raised" /\ ch_return # "body"))
    /\ <>ChatDone

\* three attempts met a rate limit, a timeout and a rate limit again
C20_Witness ==
    /\ ch_pc = "raised"
    /\ ch_log = <<"429", "request_error", "429">>
    /\ ch_return = "Max retries exceeded"
    /\ ch_slept = 5 + 2 + 20


(***************************************************************************)
(* C21: JSON recovered from a response                                      *)
(***************************************************************************)
\* the JSON objects that lie in the response as substrings
JsonObjectsIn(s) ==
    {SubSeq(s, i, j) : i \in 1..Len(s), j \in 1..Len(s)}
        \cap {t \in Responses21 : t # <<>> /\ t[1] = "{" /\ IsJson(t)}

\* C21 as stated: a response that is JSON is returned parsed; otherwise, when
\* a JSON object lies in the response, the parse of one is returned; when
\* there is none, a ValueError is raised (JSONDecodeError is a ValueError);
\* nothing else is ever returned.
C21_RecoversJsonOrRaises ==
    (fn_name = "get_structured_output" /\ fn_pc = "returned")
        => IF IsJson(fn_input) THEN fn_output = Returned(JsonLoads(fn_input))
           ELSE IF JsonObjectsIn(fn_input) # {}
           THEN \E t \in JsonObjectsIn(fn_input) : fn_output = Returned(JsonLoads(t))
           ELSE /\ fn_output.kind = "raised"
                /\ fn_output.error \in {"JSONDecodeError",
                                        "ValueError: Could not parse JSON from response"}


(***************************************************************************)
(* C22: the budgets of the improvement loops                               *)
(***************************************************************************)
\* C22: the refinement outer loop runs at most outer_loop_rounds steps, an
\* inner loop evaluates at most inner_loop_rounds plans, the ensemble loop
\* evaluates at most ensemble_loop_rounds plans after the initial one, and
\* the merge loop performs at most num_model_candidates - 1 merges.
C22_LoopsWithinBudget ==
    /\ stage = "refine"
          => /\ step <= outer_loop_rounds
             /\ Len(refinement_steps) <= outer_loop_rounds
             /\ Len(improvements) <= inner_loop_rounds
             /\ Len(plans_tried) <= inner_loop_rounds
    /\ stage = "ensemble"
          => /\ Len(ensemble_iterations) <= ensemble_loop_rounds + 1
             /\ Len(ensemble_plans) <= ensemble_loop_rounds + 1
    /\ stage = "merge"
          => /\ Len(evaluated) <= num_model_candidates - 1
             /\ merge_i <= num_model_candidates

\* the last outer step has ended after an inner loop that used its budget
C22_Witness ==
    /\ stage = "refine" /\ pc = "outer_head"
    /\ step = outer_loop_rounds
    /\ Len(improvements) = inner_loop_rounds


(***************************************************************************)
(* C23: the order inside a refinement outer step                           *)
(***************************************************************************)
InInnerLoop(p) == p \in {"inner_loop", "inner_eval", "inner_select"}

\* C23: in every outer step the ablation study comes first, then the
\* extraction of block and plan, then the inner loop; the inner loop starts
\* from the incumbent's code and score as the step before left them, and the
\* step leaves the improved candidate as incumbent if it improved, the
\* incumbent unchanged otherwise.
C23_OuterStepOrderAndSeed ==
    [][stage = "refine" =>
          /\ pc' = "extract" => (pc = "outer_head" /\ UNCHANGED <<current_code, current_score>>)
          /\ pc' = "inner_start"
                => (pc = "extract" /\ UNCHANGED <<current_code, current_score>>)
          /\ pc = "inner_start"
                => /\ base_code' = current_code /\ base_score' = current_score
                   /\ UNCHANGED <<current_code, current_score>>
                   /\ pc' \in {"inner_loop", "raised"}
          /\ (InInnerLoop(pc) /\ InInnerLoop(pc'))
                => UNCHANGED <<base_code, base_score, current_code, current_score>>
          /\ OuterStepped
                => /\ InInnerLoop(pc) /\ pc' = "outer_head"
                   /\ IF refinement_steps'[Len(refinement_steps')].improved
                      THEN /\ \E k \in 1..Len(improvements) :
                                /\ improvements[k].code = current_code'
                                /\ improvements[k].score = current_score'
                           /\ StrictlyBetter(current_score', base_score)
                      ELSE UNCHANGED <<current_code, current_score>>]_vars

\* the second inner loop runs from the candidate the first step adopted
C23_Witness ==
    /\ stage = "refine" /\ pc = "inner_loop"
    /\ step = 1
    /\ refinement_steps[1].improved
    /\ base_code = current_code /\ base_code # initial_code
    /\ base_score = current_score /\ base_score # initial_score


(***************************************************************************)
(* C24: what an initialization agent returns                               *)
(***************************************************************************)
AgentReturned ==
    stage = "merge" /\ pc \in {"agent_done", "agent_error", "agent_key_error"}

\* C24 as stated: when a model candidate was evaluated successfully with a
\* score, the best_score the agent returns is defined and no successfully
\* evaluated candidate has a better one, and the code returned is a
\* candidate's code or a merged code whose evaluation gave that score.
C24_BestScoreCoversCandidates ==
    (AgentReturned /\ \E k \in 1..Len(evaluation_results) :
                          IsSuccessful(evaluation_results[k]))
        => /\ Defined(best_score_init)
           /\ \A k \in 1..Len(evaluation_results) :
                 IsSuccessful(evaluation_results[k])
                    => ~StrictlyBetter(evaluation_results[k].score, best_score_init)
           /\ \/ \E k \in 1..Len(evaluation_results) :
                    /\ IsSuccessful(evaluation_results[k])
                    /\ evaluation_results[k].code = best_solution
                    /\ evaluation_results[k].score = best_score_init
              \/ \E i \in 1..Len(evaluated) :
                    /\ IsSuccessful(evaluated[i])
                    /\ best_solution = MkCode("merged", i, 0)
                    /\ evaluated[i].score = best_score_init


(***************************************************************************)
(* C25: the results collected from the agents and from their evaluations   *)
(***************************************************************************)
Ids(list, field) == {list[k][field] : k \in 1..Len(list)}
Distinct(list, field) == Cardinality(Ids(list, field)) = Len(list)

\* C25: run_initialization_agents returns one result per agent, with the
\* task_ids 1..n, whatever the order in which the agents finish and also
\* when agents fail inside run; _evaluate_models of an agent with at least
\* one candidate returns one entry per candidate, with the model_ids of the
\* candidates, also for evaluations that raised.
C25_OneResultPerAgentAndCandidate ==
    /\ Distinct(col_results, "task_id")
    /\ (\A a \in Agents : col_agent[a] = "collected")
          => Ids(col_results, "task_id") = Agents
    /\ \A a \in Agents :
         /\ Distinct(col_entries[a], "model_id")
         /\ (col_n[a] >= 1 /\ col_agent[a] \notin {"search", "evaluate"})
               => Ids(col_entries[a], "model_id") = 1..col_n[a]

\* the second agent found no candidate and finished first; in the first
\* agent the second evaluation raised and was the first to complete
C25_Witness ==
    /\ col_results = <<[task_id |-> 2], [task_id |-> 1]>>
    /\ col_n[1] = 2
    /\ col_entries[1] = <<[model_id |-> 2, raised |-> TRUE],
                          [model_id |-> 1, raised |-> FALSE]>>
    /\ col_entries[2] = <<>>


(***************************************************************************)
(* C26: which initialization results are refined                           *)
(***************************************************************************)
RECURSIVE TaskIds(_)
TaskIds(list) ==
    IF list = <<>> THEN <<>> ELSE <<Head(list).task_id>> \o TaskIds(Tail(list))

RECURSIVE Refinable(_)
Refinable(list) ==
    IF list = <<>> THEN <<>>
    ELSE IF IsRefinable(Head(list)) THEN <<Head(list)>> \o Refinable(Tail(list))
    ELSE Refinable(Tail(list))

\* C26 as stated: when run_refinement_agents has ended, a refinement agent
\* was run for an initialization result exactly if that result has a
\* non-empty best_solution and a best_score, and the results returned carry
\* the task_ids of those results, one each, in the same order.
C26_RefinedIffSolutionAndScore ==
    (fn_name = "run_refinement_agents" /\ fn_pc \in {"returned", "raised"})
        => /\ \A k \in 1..Len(fn_input) :
                 (fn_input[k].task_id \in fn_output.ran) <=> IsRefinable(fn_input[k])
           /\ fn_pc = "returned"
                 => TaskIds(fn_output.results) = TaskIds(Refinable(fn_input))


(***************************************************************************)
(* C27: fewer than two refined solutions                                   *)
(***************************************************************************)
FewerThanTwoValid ==
    Cardinality({k \in 1..Len(refined_solutions) :
                    /\ refined_solutions[k].final_code # NoCode
                    /\ Defined(refined_solutions[k].final_score)}) < 2

\* C27: with fewer than two refined solutions that have code and a score,
\* the ensemble stage generates and evaluates nothing and returns a result
\* without a best program or score; the submission stage follows and selects
\* among the refined candidates alone.
C27_EnsembleSkippedSubmissionFollows ==
    [][FewerThanTwoValid =>
          /\ (stage = "ensemble" /\ pc = "ens_start")
                => /\ stage' = "submission" /\ pc' = "select"
                   /\ ensemble_result'.returned
                   /\ ~ensemble_result'.has_best
                   /\ ensemble_result'.best_ensemble_code = NoCode
                   /\ ~Defined(ensemble_result'.best_ensemble_score)
                   /\ UNCHANGED <<ensemble_plans, ensemble_iterations, evaluated, result>>
          /\ (stage = "submission" /\ pc = "select")
                => /\ pc' = "selected"
                   /\ IF refined_solutions = <<>> THEN best_candidate' = NoCandidate
                      ELSE \E k \in 1..Len(refined_solutions) :
                              /\ best_candidate'.code = refined_solutions[k].final_code
                              /\ best_candidate'.score = refined_solutions[k].final_score
                              /\ best_candidate'.source = refined_solutions[k].task_id]_vars

\* a single refined solution went past the ensemble stage and was selected
C27_Witness ==
    /\ stage = "submission" /\ pc = "selected"
    /\ Len(refined_solutions) = 1
    /\ ensemble_result.returned /\ ~ensemble_result.has_best
    /\ ensemble_iterations = <<>>
    /\ best_candidate.source = refined_solutions[1].task_id


(***************************************************************************)
(* C28: plans and attempts go together                                     *)
(***************************************************************************)
\* C28: at every loop head of the refinement inner loop and of the ensemble
\* loop the list of plans tried and the list of recorded attempts have the
\* same length, the i-th attempt records the i-th plan and the result of its
\* evaluation, and the pairs handed to the plan generator pair a plan with
\* its own result.
C28_PlansPairedWithAttempts ==
    /\ (stage = "refine" /\ pc = "inner_loop")
          => /\ Len(plans_tried) = Len(improvements)
             /\ Len(evaluated) = Len(improvements)
             /\ \A i \in 1..Len(improvements) :
                   /\ improvements[i].plan = plans_tried[i]
                   /\ improvements[i].score = evaluated[i].score
                   /\ improvements[i].success = evaluated[i].success
    /\ (stage = "ensemble" /\ pc = "ens_loop")
          => /\ Len(ensemble_plans) = Len(ensemble_iterations)
             /\ Len(evaluated) = Len(ensemble_iterations)
             /\ \A i \in 1..Len(ensemble_iterations) :
                   /\ ensemble_iterations[i].plan = ensemble_plans[i]
                   /\ ensemble_iterations[i].iteration = i - 1
                   /\ ensemble_iterations[i].score = evaluated[i].score
                   /\ ensemble_iterations[i].success = evaluated[i].success
             /\ \A i \in PlansAndScores(ensemble_plans, ensemble_iterations) :
                   /\ ensemble_iterations[i].plan = ensemble_plans[i]
                   /\ IsSuccessful(evaluated[i])

\* both loops at a loop head after a second plan was tried
C28_Witness ==
    \/ /\ stage = "refine" /\ pc = "inner_loop"
       /\ Len(plans_tried) = 2 /\ plans_tried[1] # plans_tried[2]
       /\ improvements[1].score # improvements[2].score
    \/ /\ stage = "ensemble" /\ pc = "ens_loop"
       /\ Len(ensemble_plans) = 3
       /\ ensemble_iterations[2].score # ensemble_iterations[3].score

(***************************************************************************)
(* C29: an iteration of debug_code whose error names none of the three     *)
(* known exceptions, or whose patch is already in the source, leaves the   *)
(* source as it was and still re-executes once and uses up one attempt;    *)
(* and the patch an iteration applied, applied once more to the patched    *)
(* source, changes nothing.                                                *)
(***************************************************************************)
\* the error text selects no patch, or the patch it selects is in the source
NothingToPatch(code, error) ==
    IF "ModuleNotFoundError" \in error.words
    THEN error.module # <<>> /\ error.module[1] \in DOMAIN import_map
            /\ CodeContains(code, import_map[error.module[1]])
    ELSE IF "NameError" \in error.words
    THEN error.name # <<>> /\ error.name[1] \in DOMAIN fixes
            /\ CodeContains(code, fixes[error.name[1]])
    ELSE IF "FileNotFoundError" \in error.words
    THEN \A k \in 1..Len(RelativePaths) : ~IsSubstring(RelativePaths[k], code)
    ELSE TRUE

DebugIterationTaken ==
    /\ fn_name = "debug_code"
    /\ fn_output'.attempt # fn_output.attempt

C29_UnpatchedIterationsAndIdempotence ==
    [][DebugIterationTaken =>
          /\ fn_output'.attempt = fn_output.attempt + 1
          /\ Len(fn_output'.executed) = Len(fn_output.executed) + 1
          /\ NothingToPatch(fn_output.code, fn_output.error)
                => fn_output'.code = fn_output.code
          /\ PatchFor(fn_output'.code, fn_output.error) = fn_output'.code]_vars


(***************************************************************************)
(* C30: the marker before the heuristic metric lines                       *)
(***************************************************************************)
\* a label of the set labels stands at p and a number follows it
LabelledNumberAt(output, p, labels) ==
    /\ output[p] \in labels
    /\ MatchNumber(output, RunEnd(output, p + 1, {"s"})) # 0

\* the value of the number that follows the label at p
ValueAfter(output, p) ==
    LET b == RunEnd(output, p + 1, {"s"})
    IN  FloatOf(SubSeq(output, b, MatchNumber(output, b) - 1)).value

\* the first place in the output where a label of the set is followed by a
\* number, 0 if there is none
FirstLabelled(output, labels) ==
    LET hits == {p \in 1..Len(output) : LabelledNumberAt(output, p, labels)}
    IN  IF hits = {} THEN 0 ELSE CHOOSE p \in hits : \A q \in hits : p <= q

\* C30: when the output holds the marker followed by a number, _extract_score
\* returns the value after the (first such) marker, whatever heuristic metric
\* lines stand before or after it; only when no marker is followed by a
\* number does it return the value of a heuristic line, namely of the first
\* pattern, in the order validation score, val_score, rmse, mae, accuracy,
\* that has a line in the output; and None when there is none.
C30_MarkerBeforeHeuristicsInOrder ==
    sc_pc = "returned"
        => LET marker == FirstLabelled(sc_output, PrimaryLabels)
               Line(k) == FirstLabelled(sc_output, AlternativePatterns[k])
           IN  IF marker # 0
               THEN sc_result = Some(ValueAfter(sc_output, marker))
               ELSE /\ \A k \in 1..Len(AlternativePatterns) :
                         (Line(k) # 0 /\ \A j \in 1..(k - 1) : Line(j) = 0)
                            => sc_result = Some(ValueAfter(sc_output, Line(k)))
                    /\ (\A k \in 1..Len(AlternativePatterns) : Line(k) = 0)
                          => sc_result = None

\* a heuristic line stands before the marker and another after it, both with
\* a value other than the marker's, and the marker's value was returned
C30_Witness ==
    /\ sc_pc = "returned"
    /\ \E p, q, r \in 1..Len(sc_output) :
          /\ q < p /\ p < r
          /\ LabelledNumberAt(sc_output, p, PrimaryLabels)
          /\ LabelledNumberAt(sc_output, q, AlternativeLabels)
          /\ LabelledNumberAt(sc_output, r, AlternativeLabels)
          /\ ValueAfter(sc_output, q) # ValueAfter(sc_output, p)
          /\ ValueAfter(sc_output, r) # ValueAfter(sc_output, p)
          /\ sc_result = Some(ValueAfter(sc_output, p))


(***************************************************************************)
(* C31: the code recorded with a score                                     *)
(***************************************************************************)
\* C31: what an evaluation hands back to the stage as the candidate's source
\* is the source whose execution produced the result handed back with it:
\* after a debug pass that patched the source, the patched source.
C31_RecordedCodeProducedTheScore ==
    (ev_pc = "returned" /\ ev_site \in EvalSites)
        => /\ ev_return.result = ev_result
           /\ ev_return.code = ev_code


(***************************************************************************)
(* C32: the program a spawned process runs                                 *)
(***************************************************************************)
\* C32: in every execute_code call of the concurrent evaluations and debug
\* attempts of an initialization agent, the program the spawned interpreter
\* runs is the source text that was passed to that call.
C32_SpawnRunsThePassedSource ==
    fn_name = "evaluate_models"
        => \A m \in Models : fn_output.last[m].program = fn_output.last[m].passed


(***************************************************************************)
(* C33: the files attributed to an execution                               *)
(***************************************************************************)
\* C33: the generated_files of an execution's result are output files that
\* this execution's program wrote, never a file that was only found in the
\* working directory.
C33_GeneratedFilesAreNewlyWritten ==
    ex_pc = "returned" => ex_result.generated_files \subseteq ex_proc.writes


(***************************************************************************)
(* C34: the best_score of the hyperparameter search                        *)
(***************************************************************************)
\* the final validation ran, succeeded and has a score
Validated ==
    /\ fn_output.at = "returned"
    /\ fn_output.results.best_params
    /\ fn_output.final_result.success
    /\ Defined(fn_output.final_result.score)

\* C34: the best_score HyperoptAgent.run returns is never worse than the
\* original score under lower_is_better, and it is the score of the final
\* validation whenever that validation succeeded with a score, 0 included,
\* that is strictly better than the original.
C34_BestScoreNeverWorse ==
    (fn_name = "HyperoptAgent.run" /\ fn_pc = "returned")
        => LET original == Val(fn_output.results.original_score)
               best == Val(fn_output.results.best_score)
           IN  /\ ~IsImproved(original, best, fn_input.lower_is_better)
               /\ (Validated /\ IsImproved(Val(fn_output.final_result.score), original,
                                           fn_input.lower_is_better))
                     => fn_output.results.best_score = fn_output.final_result.score


(***************************************************************************)
(* C35: the ensemble stage and the values of the scores                    *)
(***************************************************************************)
\* C35: whatever the input scores and the ensemble scores are, the best
\* individual score 0 included, EnsembleAgent.run does not raise on account
\* of them: the comparison with the individual solutions never ends the
\* stage with an exception.
C35_ScoresNeverRaise ==
    stage = "ensemble" => pc # "raised_zero_division"


(***************************************************************************)
(* C36: what _save_results leaves in the returned result                   *)
(***************************************************************************)
\* EnsembleAgent.run saved its results and returned them
EnsembleSavedAndReturned ==
    /\ stage = "ensemble" /\ stage' = "submission"
    /\ ensemble_result'.has_best

\* C36: after _save_results the result returned by EnsembleAgent.run holds
\* the best_ensemble_code and, in every entry of ensemble_iterations, the
\* code that it held before the save.
C36_SaveLeavesResultUnchanged ==
    [][EnsembleSavedAndReturned
          => /\ ensemble_result'.best_ensemble_code = best_code
             /\ ensemble_iterations' = ensemble_iterations]_vars


(***************************************************************************)
(* C37: the runs that end before the last stage                            *)
(***************************************************************************)
\* run returned its record
RunReturned == pipe_pc \in {"no_task", "failed", "completed"}

\* C37: a run of the orchestrator that returns without total_duration, that
\* is without having completed the four stages, returns a record with an
\* error field and has written that record to the results file.
C37_EarlyReturnCarriesError ==
    (RunReturned /\ pipe_pc # "completed")
        => /\ pipe_error
           /\ pipe_saved.saved
           /\ pipe_saved.error


(***************************************************************************)
(* C38: the selection and the order in which the agents complete           *)
(***************************************************************************)
\* the same refined results, as every order of completion of the agents
\* would have listed them
CompletionOrders(refined) ==
    {r \in [1..Len(refined) -> Range(refined)] : Range(r) = Range(refined)}

\* C38: the candidate the submission stage selects, its source label and its
\* score, is the one it would select from the same results in any other
\* order of completion of the agents, ties on the best score included.
C38_SelectionIndependentOfOrder ==
    (stage = "submission" /\ pc = "selected")
        => \A other \in CompletionOrders(refined_solutions) :
              LET selected == SelectBest(other, ensemble_result, lower_is_better)
              IN  /\ selected.source = best_candidate.source
                  /\ selected.score = best_candidate.score


(***************************************************************************)
(* C39: debug_code with no re-execution                                    *)
(***************************************************************************)
\* C39: for every max_attempts >= 0 and every CONFIG.max_debug_rounds >= 0 a
\* call of debug_code ends by returning a (source, result) pair, never by
\* raising, also when its loop performs no re-execution.
C39_DebugCodeReturnsAPair ==
    ev_site = "debug_code"
        => /\ ev_pc # "raised"
           /\ ev_pc = "returned" => ev_return.returned


====
